---- MODULE Spec2Model ----
(***************************************************************************)
(* State-machine model of the RefactAgent (server.js, v3.0.0): the         *)
(* in-memory workspace store, the tool set, applyPatch with its per-file   *)
(* remote commits, executeAgentWorkflow, the /agent request handler and    *)
(* the /health handlers of the three server revisions.                     *)
(*                                                                         *)
(* A JavaScript string is a sequence of one-character strings; a           *)
(* JavaScript object with string keys is a sequence of [path, content]     *)
(* records with distinct paths, in insertion order.                        *)
(***************************************************************************)
EXTENDS Integers, Sequences, FiniteSets, TLC

VARIABLES
    workspaces,   \* agent.workspaces: project id -> [present, files]
    remote,       \* the repository host: project id -> files
    toolIn,       \* the arguments of the last direct tool call
    toolOut,      \* the value the last direct tool call returned
    inv,          \* one record per /agent request in flight
    llmUp,        \* the LLM backend is reachable
    issued,       \* the outbound calls the last step issued
    healthRes,    \* the last response of GET /health
    projects,     \* the projects Map of revision 2.0.0: id -> [present, files]
    createReq,    \* the /v1/projects/create request in flight
    chatDb,       \* the chat tables: chat_sessions, chat_messages, pending_code
    chatReq,      \* one record per /chat request in flight
    genReq        \* the /generate request of revision 2.0.0 in flight

vars == <<workspaces, remote, toolIn, toolOut, inv, llmUp, issued,
          healthRes, projects, createReq, chatDb, chatReq, genReq>>

----------------------------------------------------------------------------
(* Strings *)

NL == "\n"

UpperChars == <<"A","B","C","D","E","F","G","H","I","J","K","L","M",
                "N","O","P","Q","R","S","T","U","V","W","X","Y","Z">>

LowerChars == <<"a","b","c","d","e","f","g","h","i","j","k","l","m",
                "n","o","p","q","r","s","t","u","v","w","x","y","z">>

toLowerCase(s) ==
    [i \in 1..Len(s) |->
        IF \E k \in 1..Len(UpperChars) : UpperChars[k] = s[i]
        THEN LowerChars[CHOOSE k \in 1..Len(UpperChars) : UpperChars[k] = s[i]]
        ELSE s[i]]

includes(s, t) ==
    \E i \in 0..(Len(s) - Len(t)) : SubSeq(s, i + 1, i + Len(t)) = t

RECURSIVE splitFrom(_, _, _, _)
splitFrom(s, sep, i, cur) ==
    IF i > Len(s) THEN <<cur>>
    ELSE IF s[i] = sep THEN <<cur>> \o splitFrom(s, sep, i + 1, <<>>)
    ELSE splitFrom(s, sep, i + 1, Append(cur, s[i]))

split(s, sep) == splitFrom(s, sep, 1, <<>>)

----------------------------------------------------------------------------
(* Objects with string keys: insertion-ordered, one entry per key *)

Has(obj, p) == \E i \in 1..Len(obj) : obj[i].path = p

Get(obj, p) == obj[CHOOSE i \in 1..Len(obj) : obj[i].path = p].content

\* variant: an assignment always adds an entry
PutAppending(obj, p, c) == Append(obj, [path |-> p, content |-> c])

\* obj[p] = c
Put(obj, p, c) ==
    IF Has(obj, p)
    THEN [i \in 1..Len(obj) |->
            IF obj[i].path = p THEN [path |-> p, content |-> c] ELSE obj[i]]
    ELSE Append(obj, [path |-> p, content |-> c])

Del(obj, p) == SelectSeq(obj, LAMBDA e : e.path # p)

Keys(obj) == {obj[i].path : i \in 1..Len(obj)}

NoWorkspace == [present |-> FALSE, files |-> <<>>]

Workspace(files) == [present |-> TRUE, files |-> files]

----------------------------------------------------------------------------
(* The read-only tools *)

searchCodebase(query, ws) ==
    IF ~ws.present THEN <<>>
    ELSE LET q == toLowerCase(query)
             hits == SelectSeq(ws.files,
                        LAMBDA e : includes(toLowerCase(e.content), q))
         IN [i \in 1..Len(hits) |->
                [file |-> hits[i].path,
                 matches |-> SelectSeq(split(hits[i].content, NL),
                                LAMBDA line : includes(toLowerCase(line), q))]]

RECURSIVE insertChain(_, _, _)
insertChain(tree, parts, k) ==
    IF k > Len(parts) THEN tree
    ELSE insertChain(tree \cup {SubSeq(parts, 1, k)}, parts, k + 1)

RECURSIVE treeFrom(_, _, _)
treeFrom(files, i, tree) ==
    IF i > Len(files) THEN tree
    ELSE treeFrom(files, i + 1,
                  insertChain(tree, split(files[i].path, "/"), 1))

\* variant: every path is one key of the root, not split into segments
getFileTreeFlat(ws) ==
    IF ~ws.present THEN {}
    ELSE {<<ws.files[i].path>> : i \in 1..Len(ws.files)}

getFileTree(ws) == IF ~ws.present THEN {} ELSE treeFrom(ws.files, 1, {})

Undefined == <<"undefined">>

Truthy(content) == content # <<>> /\ content # Undefined

RECURSIVE readFrom(_, _, _, _)
readFrom(files, ws, i, result) ==
    IF i > Len(files) THEN result
    ELSE readFrom(files, ws, i + 1,
            IF Has(ws.files, files[i]) /\ Truthy(Get(ws.files, files[i]))
            THEN Put(result, files[i], Get(ws.files, files[i]))
            ELSE result)

readFiles(files, ws) ==
    IF ~ws.present THEN <<>> ELSE readFrom(files, ws, 1, <<>>)

sCOMPONENT == <<"c","o","m","p","o","n","e","n","t">>
sSTYLE == <<"s","t","y","l","e">>
sCSS == <<".","c","s","s">>
sJS == <<".","j","s">>
sJSX == <<".","j","s","x">>
sTS == <<".","t","s">>

Score(taskDescription, file) ==
    IF includes(toLowerCase(taskDescription), sCOMPONENT)
       /\ includes(file, sCOMPONENT) THEN 9
    ELSE IF includes(toLowerCase(taskDescription), sSTYLE)
            /\ includes(file, sCSS) THEN 8
    ELSE IF includes(file, sJS) \/ includes(file, sJSX)
            \/ includes(file, sTS) THEN 5
    ELSE 0

\* insert x into a list sorted by (b.relevance - a.relevance), after
\* every element that does not compare greater (the sort is stable)
RECURSIVE insertSorted(_, _)
insertSorted(sorted, x) ==
    IF sorted = <<>> THEN <<x>>
    ELSE IF x.relevance - Head(sorted).relevance > 0
         THEN <<x>> \o sorted
         ELSE <<Head(sorted)>> \o insertSorted(Tail(sorted), x)

RECURSIVE sortByRelevance(_, _, _)
sortByRelevance(list, i, sorted) ==
    IF i > Len(list) THEN sorted
    ELSE sortByRelevance(list, i + 1, insertSorted(sorted, list[i]))

locateFiles(taskDescription, ws) ==
    IF ~ws.present THEN <<>>
    ELSE LET scored == SelectSeq(ws.files,
                          LAMBDA e : Score(taskDescription, e.path) > 0)
             relevantFiles == [i \in 1..Len(scored) |->
                  [file |-> scored[i].path,
                   relevance |-> Score(taskDescription, scored[i].path)]]
         IN sortByRelevance(relevantFiles, 1, <<>>)

----------------------------------------------------------------------------
(* applyPatch: edits, the in-memory pass and the per-file commit *)

Edit(type, file, content) ==
    [type |-> type, file |-> file, content |-> content, hasContent |-> TRUE]

EditNoContent(type, file) ==
    [type |-> type, file |-> file, content |-> <<>>, hasContent |-> FALSE]

\* a JSON null inside the changes array
NullEntry ==
    [type |-> "null", file |-> <<>>, content |-> <<>>, hasContent |-> FALSE]

ContentOf(change) == IF change.hasContent THEN change.content ELSE Undefined

\* variant: an edit of a path already present appends to its content
applyChangeAppending(files, change) ==
    IF change.type = "create" \/ change.type = "update"
    THEN IF Has(files, change.file)
         THEN Put(files, change.file,
                  Get(files, change.file) \o ContentOf(change))
         ELSE Put(files, change.file, ContentOf(change))
    ELSE IF change.type = "delete" THEN Del(files, change.file)
    ELSE files

\* workspace.files after one iteration of the first loop of applyPatch
applyChange(files, change) ==
    IF change.type = "create" \/ change.type = "update"
    THEN Put(files, change.file, ContentOf(change))
    ELSE IF change.type = "delete" THEN Del(files, change.file)
    ELSE files

\* the first loop of applyPatch; reading change.type of null throws and
\* leaves the edits before it applied
RECURSIVE applyFrom(_, _, _)
applyFrom(files, changes, i) ==
    IF i > Len(changes) THEN [files |-> files, threw |-> FALSE]
    ELSE IF changes[i] = NullEntry THEN [files |-> files, threw |-> TRUE]
    ELSE applyFrom(applyChange(files, changes[i]), changes, i + 1)

applyInMemory(files, changes) == applyFrom(files, changes, 1)

\* the content argument of createOrUpdateFileContents, before base64:
\* change.content || ''
CommitContent(change) ==
    IF change.hasContent /\ change.content # <<>> THEN change.content
    ELSE <<>>

\* the repository after createOrUpdateFileContents(path, content) answered
createOrUpdateFileContents(repoFiles, change, ok) ==
    IF ok THEN Put(repoFiles, change.file, CommitContent(change))
    ELSE repoFiles

\* variant: a reference is pushed for a rejected call too
pushCommitAlways(commits, sha, ok) == Append(commits, sha)

\* commits.push(result.data.commit.sha) in the try block, nothing in catch
pushCommit(commits, sha, ok) ==
    IF ok THEN Append(commits, sha) ELSE commits

----------------------------------------------------------------------------
(* Bounds and input domains *)

MaxEdits == 2
MaxUnderstanding == 2

SeqsUpTo(S, n) == UNION {[1..k -> S] : k \in 0..n}

Projects == {"p1"}
ProjectIds == {"p1", "nope"}

pA == <<"a",".","j","s">>
pB == <<"s","/","b",".","c","s","s">>
cHi == <<"h","i">>
cStyle == <<"s","t","y","l","e">>

File(p, c) == [path |-> p, content |-> c]

\* what the repository holds when the server starts
InitRemotes == { <<>>, <<File(pA, cHi)>>, <<File(pA, <<>>), File(pB, cHi)>> }

WEdits == { Edit("create", pA, cHi), Edit("update", pA, <<>>),
            EditNoContent("delete", pA), EditNoContent("delete", pB),
            NullEntry }

Step(tool, target) == [tool |-> tool, target |-> target, hasTarget |-> TRUE]

StepNoTarget(tool) == [tool |-> tool, target |-> <<>>, hasTarget |-> FALSE]

WSteps == { StepNoTarget("tree"), Step("cat", pA \o <<",">> \o pB),
            Step("cat", pB), StepNoTarget("cat"), Step("search", cHi),
            Step("locate", cStyle), Step("lint", pA) }

----------------------------------------------------------------------------
(* LLM response texts and JSON.parse *)

JsonObj(hasU, u, hasC, c) ==
    [hasUnderstanding |-> hasU, understanding |-> u,
     hasChanges |-> hasC, changes |-> c]

EmptyObj == JsonObj(FALSE, <<>>, FALSE, <<>>)

\* a text that is not JSON
Garbage(n) == [kind |-> "garbage", id |-> n, value |-> EmptyObj]

\* the serialisation of a JSON object
JsonText(obj) == [kind |-> "json", id |-> 0, value |-> obj]

NoText == [kind |-> "none", id |-> 0, value |-> EmptyObj]

\* variant: a tolerant parser that yields an empty object for a text that
\* is not JSON
JSONparseLenient(text) == [ok |-> TRUE, value |-> text.value]

JSONparse(text) ==
    IF text.kind = "json" THEN [ok |-> TRUE, value |-> text.value]
    ELSE [ok |-> FALSE, value |-> EmptyObj]

PlanTexts ==
    {Garbage(1), JsonText(EmptyObj)} \cup
    {JsonText(JsonObj(TRUE, u, FALSE, <<>>)) :
        u \in SeqsUpTo(WSteps, MaxUnderstanding)}

ExecTexts ==
    {Garbage(2), JsonText(EmptyObj)} \cup
    {JsonText(JsonObj(FALSE, <<>>, TRUE, c)) :
        c \in SeqsUpTo(WEdits, MaxEdits)}

----------------------------------------------------------------------------
(* planTask and the gathering switch *)

\* the value planTask returns for a response text
planOf(text) ==
    LET parsed == JSONparse(text)
    IN IF parsed.ok
       THEN [error |-> "", raw |-> NoText,
             hasUnderstanding |-> parsed.value.hasUnderstanding,
             understanding |-> parsed.value.understanding]
       ELSE [error |-> "Failed to parse plan", raw |-> text,
             hasUnderstanding |-> FALSE, understanding |-> <<>>]

NoPlan == [error |-> "", raw |-> NoText, hasUnderstanding |-> FALSE,
           understanding |-> <<>>]

EmptyContext ==
    [keys |-> {}, fileTree |-> {}, files |-> <<>>, searchResults |-> <<>>,
     relevantFiles |-> <<>>]

KnownTools == {"tree", "cat", "search", "locate"}

\* variant: the switch has a default branch that rejects the step
DispatchThrowsStrict(step, ws) ==
    \/ step.tool \notin KnownTools
    \/ step.tool = "cat" /\ ~step.hasTarget

\* the step's tool call raises a TypeError
DispatchThrows(step, ws) ==
    \/ step.tool = "cat" /\ ~step.hasTarget
    \/ step.tool \in {"search", "locate"} /\ ~step.hasTarget
         /\ ws.present /\ ws.files # <<>>
    \/ step.tool = "search" /\ ws.present
         /\ \E i \in 1..Len(ws.files) : ws.files[i].content = Undefined

\* the context after one iteration of the switch
dispatch(context, step, ws) ==
    CASE step.tool = "tree" ->
           [context EXCEPT !.keys = @ \cup {"fileTree"},
                           !.fileTree = getFileTree(ws)]
      [] step.tool = "cat" ->
           [context EXCEPT !.keys = @ \cup {"files"},
                           !.files = readFiles(split(step.target, ","), ws)]
      [] step.tool = "search" ->
           [context EXCEPT !.keys = @ \cup {"searchResults"},
                           !.searchResults = searchCodebase(step.target, ws)]
      [] step.tool = "locate" ->
           [context EXCEPT !.keys = @ \cup {"relevantFiles"},
                           !.relevantFiles = locateFiles(step.target, ws)]
      [] OTHER -> context

----------------------------------------------------------------------------
(* The create and chat endpoints at rest *)

ChatReqs == {"c1", "c2"}

NoCreateRes ==
    [status |-> 0, project_id |-> "", initial_structure |-> <<>>,
     error |-> ""]

IdleCreate ==
    [pc |-> "idle", version |-> "", complexity |-> "", structure |-> <<>>,
     k |-> 0, rejected |-> 0, res |-> NoCreateRes]

EmptyChatDb == [sessions |-> <<>>, messages |-> <<>>, pending |-> <<>>]

NoChatRes == [status |-> 0, action_taken |-> "", session_id |-> "",
              error |-> ""]

IdleChat ==
    [pc |-> "idle", projectId |-> "", message |-> <<>>, sessionArg |-> "",
     session |-> "", intent |-> "", rows |-> <<>>, codeFiles |-> <<>>,
     k |-> 0, calls |-> <<>>, action |-> "", res |-> NoChatRes]

NoGenRes == [status |-> 0, error |-> ""]

IdleGen == [pc |-> "idle", projectId |-> "", k |-> 0, res |-> NoGenRes]

EndpointsIdle ==
    /\ projects = [p \in Projects |-> NoWorkspace]
    /\ createReq = IdleCreate
    /\ chatDb = EmptyChatDb
    /\ chatReq = [c \in ChatReqs |-> IdleChat]
    /\ genReq = IdleGen

----------------------------------------------------------------------------
(* POST /v1/projects/:projectId/agent and executeAgentWorkflow *)

Reqs == {"r1", "r2"}

Ev(name, path, ok) == [ev |-> name, path |-> path, ok |-> ok]

NoRes == [status |-> 0, success |-> FALSE, error |-> "", raw |-> NoText,
          changes |-> <<>>, commits |-> <<>>]

IdleReq ==
    [pc |-> "idle", projectId |-> "", hyd |-> <<>>, hydFiles |-> <<>>,
     plan |-> NoPlan, idx |-> 0, context |-> EmptyContext,
     changes |-> <<>>, k |-> 0, commits |-> <<>>, trace |-> <<>>,
     execText |-> NoText, preFiles |-> <<>>, res |-> NoRes]

NoTool == [tool |-> "", query |-> <<>>, files |-> <<>>, changes |-> <<>>,
           repeat |-> FALSE, k |-> 0, preFiles |-> <<>>,
           preRemote |-> <<>>]

NoOut == [tool |-> "", list |-> <<>>, tree |-> {}, threw |-> FALSE]

NoHealth == [status |-> 0, body |-> [status |-> "", version |-> ""]]

\* Nothing reads the understanding list or the context once the execution
\* prompt is built (the result only echoes the plan): the record keeps the
\* plan's error and raw fields and drops the rest.
forget(rec) ==
    [rec EXCEPT !.plan.hasUnderstanding = FALSE, !.plan.understanding = <<>>,
                !.idx = 0, !.context = EmptyContext]

\* res.status(status).json(body): the request is answered
respond(rec, status, success, error, raw, changes, commits) ==
    [forget(rec) EXCEPT !.pc = "done",
                !.res = [status |-> status, success |-> success,
                         error |-> error, raw |-> raw,
                         changes |-> changes, commits |-> commits]]

\* the catch block of the handler: res.status(500).json({error})
respond500(rec, message) ==
    respond(rec, 500, FALSE, message, NoText, <<>>, <<>>)

\* executeAgentWorkflow is entered: planTask issues the planning call
\* (preFiles remembers the files the workspace holds at that point)
startWorkflow(rec, files) ==
    [rec EXCEPT !.pc = "planning", !.preFiles = files,
                !.trace = Append(@, Ev("planCall", <<>>, TRUE))]

\* variant: the workspace is loaded from the repository on every request
needsHydrationAlways(ws) == TRUE

\* !agent.workspaces.has(project.id)
needsHydration(ws) == ~ws.present

\* a path the root listing of the repository reports with type 'file'
RootFile(path) == ~includes(path, <<"/">>)

AgentRequest(r, projectId) ==
    /\ inv[r].pc = "idle"
    /\ inv' = [inv EXCEPT ![r].pc = "lookup", ![r].projectId = projectId]
    /\ issued' = {"db"}
    /\ UNCHANGED <<workspaces, remote, toolIn, toolOut, llmUp, healthRes,
                   projects, createReq, chatDb, chatReq,
                   genReq>>

LookupReturn(r, dbOk) ==
    LET rec == inv[r]
        found == dbOk /\ rec.projectId \in Projects
    IN /\ rec.pc = "lookup"
       /\ IF ~found
          THEN /\ inv' = [inv EXCEPT ![r] =
                    respond(rec, 404, FALSE, "Project not found", NoText,
                            <<>>, <<>>)]
               /\ issued' = {}
          ELSE IF needsHydration(workspaces[rec.projectId])
          THEN /\ inv' = [inv EXCEPT
                    ![r].pc = "hydrateList",
                    ![r].trace = Append(@, Ev("hydrate", <<>>, TRUE))]
               /\ issued' = {"github"}
          ELSE /\ inv' = [inv EXCEPT ![r] =
                    startWorkflow(rec, workspaces[rec.projectId].files)]
               /\ issued' = {"llm"}
       /\ UNCHANGED <<workspaces, remote, toolIn, toolOut, llmUp, healthRes,
                   projects, createReq, chatDb, chatReq,
                   genReq>>

\* loadWorkspaceFromGitHub: the root listing answered
HydrateList(r, ok) ==
    LET rec == inv[r]
        p == rec.projectId
        rootFiles == SelectSeq(remote[p], LAMBDA e : RootFile(e.path))
        items == [i \in 1..Len(rootFiles) |-> rootFiles[i].path]
    IN /\ rec.pc = "hydrateList"
       /\ IF ok /\ items # <<>>
          THEN /\ inv' = [inv EXCEPT ![r].pc = "hydrateFile",
                                     ![r].hyd = items,
                                     ![r].hydFiles = <<>>]
               /\ issued' = {"github"}
               /\ UNCHANGED workspaces
          ELSE /\ workspaces' = [workspaces EXCEPT ![p] = Workspace(<<>>)]
               /\ inv' = [inv EXCEPT ![r] = startWorkflow(rec, <<>>)]
               /\ issued' = {"llm"}
       /\ UNCHANGED <<remote, toolIn, toolOut, llmUp, healthRes,
                   projects, createReq, chatDb, chatReq,
                   genReq>>

\* loadWorkspaceFromGitHub: the content of one listed file answered
HydrateFile(r, ok) ==
    LET rec == inv[r]
        p == rec.projectId
        path == Head(rec.hyd)
        loaded == IF ok THEN Put(rec.hydFiles, path, Get(remote[p], path))
                  ELSE rec.hydFiles
    IN /\ rec.pc = "hydrateFile"
       /\ ok => Has(remote[p], path)
       /\ IF ok /\ Tail(rec.hyd) # <<>>
          THEN /\ inv' = [inv EXCEPT ![r].hyd = Tail(rec.hyd),
                                     ![r].hydFiles = loaded]
               /\ issued' = {"github"}
               /\ UNCHANGED workspaces
          ELSE /\ workspaces' = [workspaces EXCEPT ![p] = Workspace(loaded)]
               /\ inv' = [inv EXCEPT ![r] =
                    startWorkflow([rec EXCEPT !.hyd = <<>>,
                                              !.hydFiles = <<>>], loaded)]
               /\ issued' = {"llm"}
       /\ UNCHANGED <<remote, toolIn, toolOut, llmUp, healthRes,
                   projects, createReq, chatDb, chatReq,
                   genReq>>

\* callClaudeAPI rejects: the error reaches the catch block of the handler
PlanFail(r) ==
    /\ inv[r].pc = "planning"
    /\ inv' = [inv EXCEPT ![r] =
          respond500([inv[r] EXCEPT
                        !.trace = Append(@, Ev("planFail", <<>>, FALSE))],
                     "upstream")]
    /\ issued' = {}
    /\ UNCHANGED <<workspaces, remote, toolIn, toolOut, llmUp, healthRes,
                   projects, createReq, chatDb, chatReq,
                   genReq>>

\* variant: a plan that does not parse makes planTask call the LLM again
PlanReturnRetry(r, text) ==
    /\ inv[r].pc = "planning"
    /\ llmUp
    /\ IF JSONparse(text).ok
       THEN /\ inv' = [inv EXCEPT
                 ![r].pc = "gathering",
                 ![r].plan = planOf(text),
                 ![r].idx = 1,
                 ![r].trace = Append(@, Ev("planReturn", <<>>, TRUE))]
            /\ issued' = {}
       ELSE /\ inv' = [inv EXCEPT
                 ![r].trace = Append(@, Ev("planCall", <<>>, TRUE))]
            /\ issued' = {"llm"}
    /\ UNCHANGED <<workspaces, remote, toolIn, toolOut, llmUp, healthRes,
                   projects, createReq, chatDb, chatReq,
                   genReq>>

\* planTask returns; the understanding loop is entered
PlanReturn(r, text) ==
    /\ inv[r].pc = "planning"
    /\ llmUp
    /\ inv' = [inv EXCEPT ![r].pc = "gathering",
                          ![r].plan = planOf(text),
                          ![r].idx = 1,
                          ![r].trace = Append(@, Ev("planReturn", <<>>, TRUE))]
    /\ issued' = {}
    /\ UNCHANGED <<workspaces, remote, toolIn, toolOut, llmUp, healthRes,
                   projects, createReq, chatDb, chatReq,
                   genReq>>

\* variant: the tool calls are not awaited, the loop is left at once
GatherFinishedUnawaited(rec) == TRUE

\* the understanding loop has no entry left
GatherFinished(rec) ==
    ~rec.plan.hasUnderstanding \/ rec.idx > Len(rec.plan.understanding)

\* one iteration of the understanding loop
GatherStep(r) ==
    LET rec == inv[r]
        step == rec.plan.understanding[rec.idx]
        ws == workspaces[rec.projectId]
    IN /\ rec.pc = "gathering"
       /\ ~GatherFinished(rec)
       /\ IF DispatchThrows(step, ws)
          THEN inv' = [inv EXCEPT ![r] = respond500(rec, "TypeError")]
          ELSE inv' = [inv EXCEPT
                  ![r].context = dispatch(rec.context, step, ws),
                  ![r].idx = rec.idx + 1,
                  ![r].trace = IF step.tool \in KnownTools
                               THEN Append(@, Ev("tool", <<>>, TRUE))
                               ELSE @]
       /\ issued' = {}
       /\ UNCHANGED <<workspaces, remote, toolIn, toolOut, llmUp, healthRes,
                   projects, createReq, chatDb, chatReq,
                   genReq>>

\* the execution prompt is built and callClaudeAPI is called again
ExecCall(r) ==
    /\ inv[r].pc = "gathering"
    /\ GatherFinished(inv[r])
    /\ inv' = [inv EXCEPT ![r].pc = "executing",
                          ![r].trace = Append(@, Ev("execCall", <<>>, TRUE))]
    /\ issued' = {"llm"}
    /\ UNCHANGED <<workspaces, remote, toolIn, toolOut, llmUp, healthRes,
                   projects, createReq, chatDb, chatReq,
                   genReq>>

\* variant: the rejection is caught inside the workflow and reported as a
\* failed result
ExecFailCaught(r) ==
    /\ inv[r].pc = "executing"
    /\ inv' = [inv EXCEPT ![r] =
          respond([inv[r] EXCEPT
                     !.trace = Append(@, Ev("execFail", <<>>, FALSE))],
                  200, FALSE, "upstream", NoText, <<>>, <<>>)]
    /\ issued' = {}
    /\ UNCHANGED <<workspaces, remote, toolIn, toolOut, llmUp, healthRes,
                   projects, createReq, chatDb, chatReq,
                   genReq>>

\* callClaudeAPI rejects before the try block of the workflow is entered
ExecFail(r) ==
    /\ inv[r].pc = "executing"
    /\ inv' = [inv EXCEPT ![r] =
          respond500([inv[r] EXCEPT
                        !.trace = Append(@, Ev("execFail", <<>>, FALSE))],
                     "upstream")]
    /\ issued' = {}
    /\ UNCHANGED <<workspaces, remote, toolIn, toolOut, llmUp, healthRes,
                   projects, createReq, chatDb, chatReq,
                   genReq>>

\* variant: only the presence of the list is tested
HasChangesPresent(obj) == obj.hasChanges

\* result.changes && result.changes.length > 0
HasChanges(obj) == obj.hasChanges /\ Len(obj.changes) > 0

\* variant: each edit is applied right before its own commit call, so the
\* first commit call is issued with only the first edit applied
ExecReturnStepwise(r, text) ==
    LET rec == inv[r]
        p == rec.projectId
        parsed == JSONparse(text)
        applied == applyInMemory(workspaces[p].files,
                                 SubSeq(parsed.value.changes, 1, 1))
        returned == [forget(rec) EXCEPT
                       !.execText = text,
                       !.trace = Append(@, Ev("execReturn", <<>>, TRUE))]
    IN /\ rec.pc = "executing"
       /\ llmUp
       /\ IF ~parsed.ok
          THEN /\ inv' = [inv EXCEPT ![r] =
                    respond(returned, 200, FALSE,
                            "Failed to parse agent response", text,
                            <<>>, <<>>)]
               /\ issued' = {}
               /\ UNCHANGED workspaces
          ELSE IF ~HasChanges(parsed.value)
          THEN /\ inv' = [inv EXCEPT ![r] =
                    respond(returned, 200, FALSE, "No changes generated",
                            NoText, <<>>, <<>>)]
               /\ issued' = {}
               /\ UNCHANGED workspaces
          ELSE /\ workspaces' = [workspaces EXCEPT ![p].files = applied.files]
               /\ IF applied.threw
                  THEN /\ inv' = [inv EXCEPT ![r] =
                            respond([returned EXCEPT !.trace =
                                       Append(@, Ev("apply", <<>>, FALSE))],
                                    200, FALSE,
                                    "Failed to parse agent response", text,
                                    <<>>, <<>>)]
                       /\ issued' = {}
                  ELSE /\ inv' = [inv EXCEPT ![r] =
                            [returned EXCEPT
                               !.pc = "committing",
                               !.changes = parsed.value.changes,
                               !.k = 1,
                               !.trace = Append(@, Ev("apply", <<>>, TRUE))]]
                       /\ issued' = {"github"}
       /\ UNCHANGED <<remote, toolIn, toolOut, llmUp, healthRes,
                   projects, createReq, chatDb, chatReq,
                   genReq>>

\* the execution call answered: parse, then the first loop of applyPatch
\* and the first commit call, all without suspension
ExecReturn(r, text) ==
    LET rec == inv[r]
        p == rec.projectId
        parsed == JSONparse(text)
        applied == applyInMemory(workspaces[p].files, parsed.value.changes)
        returned == [forget(rec) EXCEPT
                       !.execText = text,
                       !.trace = Append(@, Ev("execReturn", <<>>, TRUE))]
    IN /\ rec.pc = "executing"
       /\ llmUp
       /\ IF ~parsed.ok
          THEN /\ inv' = [inv EXCEPT ![r] =
                    respond(returned, 200, FALSE,
                            "Failed to parse agent response", text,
                            <<>>, <<>>)]
               /\ issued' = {}
               /\ UNCHANGED workspaces
          ELSE IF ~HasChanges(parsed.value)
          THEN /\ inv' = [inv EXCEPT ![r] =
                    respond(returned, 200, FALSE, "No changes generated",
                            NoText, <<>>, <<>>)]
               /\ issued' = {}
               /\ UNCHANGED workspaces
          ELSE /\ workspaces' = [workspaces EXCEPT ![p].files = applied.files]
               /\ IF applied.threw
                  THEN /\ inv' = [inv EXCEPT ![r] =
                            respond([returned EXCEPT !.trace =
                                       Append(@, Ev("apply", <<>>, FALSE))],
                                    200, FALSE,
                                    "Failed to parse agent response", text,
                                    <<>>, <<>>)]
                       /\ issued' = {}
                  ELSE /\ inv' = [inv EXCEPT ![r] =
                            [returned EXCEPT
                               !.pc = "committing",
                               !.changes = parsed.value.changes,
                               !.k = 1,
                               !.trace = Append(@, Ev("apply", <<>>, TRUE))]]
                       /\ issued' = {"github"}
       /\ UNCHANGED <<remote, toolIn, toolOut, llmUp, healthRes,
                   projects, createReq, chatDb, chatReq,
                   genReq>>

\* variant: the try/catch encloses the whole loop, so the first rejected
\* call ends it
commitLoopDoneAbort(changes, k, ok) == ~ok \/ k >= Len(changes)

\* the second loop of applyPatch has no edit left after edit k; a rejected
\* call is caught inside the loop and does not end it
commitLoopDone(changes, k, ok) == k >= Len(changes)

\* the commit call of edit k answered; the loop goes on to the next edit
CommitReturn(r, ok) ==
    LET rec == inv[r]
        p == rec.projectId
        change == rec.changes[rec.k]
        after == [rec EXCEPT
                    !.commits = pushCommit(@, [req |-> r, n |-> rec.k], ok),
                    !.trace = Append(@, Ev("commit", change.file, ok))]
    IN /\ rec.pc = "committing"
       /\ remote' = [remote EXCEPT
                       ![p] = createOrUpdateFileContents(@, change, ok)]
       /\ IF ~commitLoopDone(rec.changes, rec.k, ok)
          THEN /\ inv' = [inv EXCEPT ![r] = [after EXCEPT !.k = rec.k + 1]]
               /\ issued' = {"github"}
          ELSE /\ inv' = [inv EXCEPT ![r] = [after EXCEPT !.pc = "store1"]]
               /\ issued' = {"db"}
       /\ UNCHANGED <<workspaces, toolIn, toolOut, llmUp, healthRes,
                   projects, createReq, chatDb, chatReq,
                   genReq>>

\* the insert of the user message answered
Store1Return(r) ==
    /\ inv[r].pc = "store1"
    /\ inv' = [inv EXCEPT ![r].pc = "store2"]
    /\ issued' = {"db"}
    /\ UNCHANGED <<workspaces, remote, toolIn, toolOut, llmUp, healthRes,
                   projects, createReq, chatDb, chatReq,
                   genReq>>

\* the insert of the assistant message answered; res.json(...)
Store2Return(r) ==
    /\ inv[r].pc = "store2"
    /\ inv' = [inv EXCEPT ![r] =
          respond(inv[r], 200, TRUE, "", NoText, inv[r].changes,
                  inv[r].commits)]
    /\ issued' = {}
    /\ UNCHANGED <<workspaces, remote, toolIn, toolOut, llmUp, healthRes,
                   projects, createReq, chatDb, chatReq,
                   genReq>>

----------------------------------------------------------------------------
(* GET /health of the three revisions, and the environment *)

Versions == {"2.0.0", "2.1.0", "3.0.0"}

healthBody(version) == [status |-> "healthy", version |-> version]

\* variant: the handler probes the LLM backend before it answers
HealthProbing(version) ==
    /\ healthRes' = [status |-> IF llmUp THEN 200 ELSE 503,
                     body |-> [status |-> IF llmUp THEN "healthy"
                                          ELSE "unhealthy",
                               version |-> version]]
    /\ issued' = {"llm"}
    /\ UNCHANGED <<workspaces, remote, toolIn, toolOut, inv, llmUp,
                   projects, createReq, chatDb, chatReq,
                   genReq>>

Health(version) ==
    /\ healthRes' = [status |-> 200, body |-> healthBody(version)]
    /\ issued' = {}
    /\ UNCHANGED <<workspaces, remote, toolIn, toolOut, inv, llmUp,
                   projects, createReq, chatDb, chatReq,
                   genReq>>

\* the LLM backend becomes unreachable, or reachable again
UpstreamFlip ==
    /\ llmUp' = ~llmUp
    /\ issued' = {}
    /\ UNCHANGED <<workspaces, remote, toolIn, toolOut, inv, healthRes,
                   projects, createReq, chatDb, chatReq,
                   genReq>>

----------------------------------------------------------------------------
(* One /agent request at a time *)

SpecReqs == {"r1"}

Init ==
    /\ workspaces = [p \in Projects |-> NoWorkspace]
    /\ remote \in [Projects -> InitRemotes]
    /\ toolIn = NoTool
    /\ toolOut = NoOut
    /\ inv = [r \in Reqs |-> IdleReq]
    /\ llmUp \in BOOLEAN
    /\ issued = {}
    /\ healthRes = NoHealth
    /\ EndpointsIdle

Next ==
    \/ \E r \in SpecReqs, id \in ProjectIds : AgentRequest(r, id)
    \/ \E r \in SpecReqs, dbOk \in BOOLEAN : LookupReturn(r, dbOk)
    \/ \E r \in SpecReqs, ok \in BOOLEAN : HydrateList(r, ok)
    \/ \E r \in SpecReqs, ok \in BOOLEAN : HydrateFile(r, ok)
    \/ \E r \in SpecReqs : PlanFail(r)
    \/ \E r \in SpecReqs, text \in PlanTexts : PlanReturn(r, text)
    \/ \E r \in SpecReqs : GatherStep(r)
    \/ \E r \in SpecReqs : ExecCall(r)
    \/ \E r \in SpecReqs : ExecFail(r)
    \/ \E r \in SpecReqs, text \in ExecTexts : ExecReturn(r, text)
    \/ \E r \in SpecReqs, ok \in BOOLEAN : CommitReturn(r, ok)
    \/ \E r \in SpecReqs : Store1Return(r)
    \/ \E r \in SpecReqs : Store2Return(r)

Spec == Init /\ [][Next]_vars

----------------------------------------------------------------------------
(* The tools called directly on a workspace *)

MaxFiles == 2

pHero == <<"s","r","c","/","c","o","m","p","o","n","e","n","t","s","/","H","e","r","o",".","j","s">>
pIndexCss == <<"s","r","c","/","i","n","d","e","x",".","c","s","s">>
pBak == <<"a",".","c","s","s",".","b","a","k">>
pJson == <<"d","a","t","a",".","j","s","o","n">>
pReadme == <<"R","E","A","D","M","E",".","m","d">>

cHello == <<"H","e","l","l","o"," ","w","o","r","l","d","\n","s","a","y"," ","h","e","l","l","o">>
cXY == <<"x","\n","y">>

qHello == <<"h","e","l","l","o">>
tComponent == <<"a","d","d"," ","a"," ","c","o","m","p","o","n","e","n","t">>
tStyle == <<"f","i","x"," ","S","t","y","l","e">>
tDocs == <<"d","o","c","s">>

ToolPaths == {pHero, pIndexCss, pBak, pJson, pReadme, pA}
ToolContents == {<<>>, cHello, cXY, cHi}
Queries == {qHello, cXY, <<>>, cHi}
Tasks == {tComponent, tStyle, tDocs}
CatArgs == SeqsUpTo({pA, pReadme, pHero}, 2)

\* the file mappings a workspace can hold: distinct paths, any order
FileMaps(paths, contents, n) ==
    {f \in SeqsUpTo([path : paths, content : contents], n) :
        \A i, j \in 1..Len(f) : i # j => f[i].path # f[j].path}

InitTools ==
    /\ workspaces \in [Projects ->
          {NoWorkspace} \cup
          {Workspace(f) : f \in FileMaps(ToolPaths, ToolContents, MaxFiles)}]
    /\ remote = [p \in Projects |-> <<>>]
    /\ toolIn = NoTool
    /\ toolOut = NoOut
    /\ inv = [r \in Reqs |-> IdleReq]
    /\ llmUp = TRUE
    /\ issued = {}
    /\ healthRes = NoHealth
    /\ EndpointsIdle

SearchCall(query, p) ==
    /\ toolIn' = [NoTool EXCEPT !.tool = "search", !.query = query]
    /\ toolOut' = [NoOut EXCEPT !.tool = "search",
                                !.list = searchCodebase(query, workspaces[p])]
    /\ UNCHANGED <<workspaces, remote, inv, llmUp, issued, healthRes,
                   projects, createReq, chatDb, chatReq,
                   genReq>>

TreeCall(p) ==
    /\ toolIn' = [NoTool EXCEPT !.tool = "tree"]
    /\ toolOut' = [NoOut EXCEPT !.tool = "tree",
                                !.tree = getFileTree(workspaces[p])]
    /\ UNCHANGED <<workspaces, remote, inv, llmUp, issued, healthRes,
                   projects, createReq, chatDb, chatReq,
                   genReq>>

CatCall(files, p) ==
    /\ toolIn' = [NoTool EXCEPT !.tool = "cat", !.files = files]
    /\ toolOut' = [NoOut EXCEPT !.tool = "cat",
                                !.list = readFiles(files, workspaces[p])]
    /\ UNCHANGED <<workspaces, remote, inv, llmUp, issued, healthRes,
                   projects, createReq, chatDb, chatReq,
                   genReq>>

LocateCall(taskDescription, p) ==
    /\ toolIn' = [NoTool EXCEPT !.tool = "locate", !.query = taskDescription]
    /\ toolOut' = [NoOut EXCEPT
                     !.tool = "locate",
                     !.list = locateFiles(taskDescription, workspaces[p])]
    /\ UNCHANGED <<workspaces, remote, inv, llmUp, issued, healthRes,
                   projects, createReq, chatDb, chatReq,
                   genReq>>

NextTools ==
    \/ \E query \in Queries, p \in Projects : SearchCall(query, p)
    \/ \E p \in Projects : TreeCall(p)
    \/ \E files \in CatArgs, p \in Projects : CatCall(files, p)
    \/ \E task \in Tasks, p \in Projects : LocateCall(task, p)

SpecTools == InitTools /\ [][NextTools]_vars

----------------------------------------------------------------------------
(* applyPatch called directly, again and again, on one workspace *)

InitPatch ==
    /\ workspaces \in [Projects ->
          {Workspace(f) : f \in FileMaps({pA, pB}, {<<>>, cHi}, 2)}]
    /\ remote \in [Projects -> InitRemotes]
    /\ toolIn = NoTool
    /\ toolOut = NoOut
    /\ inv = [r \in Reqs |-> IdleReq]
    /\ llmUp = TRUE
    /\ issued = {}
    /\ healthRes = NoHealth
    /\ EndpointsIdle

\* applyPatch up to its first suspension: the in-memory loop, then the
\* first commit call if there is an edit
PatchCall(changes, p) ==
    LET applied == applyInMemory(workspaces[p].files, changes)
        call == [NoTool EXCEPT !.changes = changes,
                               !.repeat = (toolOut.tool = "patch"
                                           /\ ~toolOut.threw
                                           /\ changes = toolIn.changes),
                               !.preFiles = workspaces[p].files,
                               !.preRemote = remote[p]]
    IN /\ toolIn.tool = ""
       /\ workspaces[p].present
       /\ workspaces' = [workspaces EXCEPT ![p].files = applied.files]
       /\ IF applied.threw \/ changes = <<>>
          THEN /\ toolIn' = call
               /\ toolOut' = [NoOut EXCEPT !.tool = "patch",
                                           !.threw = applied.threw]
               /\ issued' = {}
          ELSE /\ toolIn' = [call EXCEPT !.tool = "patch", !.k = 1]
               /\ toolOut' = NoOut
               /\ issued' = {"github"}
       /\ UNCHANGED <<remote, inv, llmUp, healthRes,
                   projects, createReq, chatDb, chatReq,
                   genReq>>

\* the commit call of edit k answered
PatchCommitReturn(ok, p) ==
    LET change == toolIn.changes[toolIn.k]
        commits == pushCommit(toolOut.list, [req |-> "", n |-> toolIn.k], ok)
    IN /\ toolIn.tool = "patch"
       /\ remote' = [remote EXCEPT
                       ![p] = createOrUpdateFileContents(@, change, ok)]
       /\ IF ~commitLoopDone(toolIn.changes, toolIn.k, ok)
          THEN /\ toolIn' = [toolIn EXCEPT !.k = toolIn.k + 1]
               /\ toolOut' = [toolOut EXCEPT !.list = commits]
               /\ issued' = {"github"}
          ELSE /\ toolIn' = [toolIn EXCEPT !.tool = "", !.k = 0]
               /\ toolOut' = [toolOut EXCEPT !.tool = "patch",
                                             !.list = commits]
               /\ issued' = {}
       /\ UNCHANGED <<workspaces, inv, llmUp, healthRes,
                   projects, createReq, chatDb, chatReq,
                   genReq>>

NextPatch ==
    \/ \E changes \in SeqsUpTo(WEdits, MaxEdits), p \in Projects :
          PatchCall(changes, p)
    \/ \E ok \in BOOLEAN, p \in Projects : PatchCommitReturn(ok, p)

SpecPatch == InitPatch /\ [][NextPatch]_vars

----------------------------------------------------------------------------
(* Properties of one workflow invocation *)

HasEv(rec, name) == \E i \in 1..Len(rec.trace) : rec.trace[i].ev = name

CommitEvents(rec) == SelectSeq(rec.trace, LAMBDA e : e.ev = "commit")

\* C1: when the planning response is not valid JSON the workflow fails at
\* once: no execution call, no edit applied, no commit, and the result has
\* success=false, a non-empty error and raw = the planning response text.
C1_PlanParseFailureFails ==
    \A r \in Reqs :
        inv[r].plan.error # "" =>
            /\ ~HasEv(inv[r], "execCall")
            /\ ~HasEv(inv[r], "apply")
            /\ ~HasEv(inv[r], "commit")
            /\ inv[r].pc = "done" =>
                 /\ ~inv[r].res.success
                 /\ inv[r].res.error # ""
                 /\ inv[r].res.raw = inv[r].plan.raw

\* C4: once a non-empty edit list is applied, the commit calls issued so far
\* are the paths of the first edits of the list, in list order, one call per
\* edit; when the loop is over there is exactly one call per edit.
C4_OneCommitPerEditInOrder ==
    \A r \in Reqs :
        LET calls == CommitEvents(inv[r])
            changes == inv[r].changes
        IN /\ Len(calls) <= Len(changes)
           /\ \A i \in 1..Len(calls) : calls[i].path = changes[i].file
           /\ inv[r].pc = "committing" => Len(calls) = inv[r].k - 1
           /\ inv[r].pc \in {"store1", "store2"} =>
                 Len(changes) > 0 /\ Len(calls) = Len(changes)
           /\ inv[r].pc = "done" /\ inv[r].res.success =>
                 Len(changes) > 0 /\ Len(calls) = Len(changes)

C4_Witness ==
    \E r \in Reqs :
        /\ inv[r].pc = "done" /\ inv[r].res.success
        /\ Len(inv[r].changes) = 2
        /\ inv[r].changes[1].file # inv[r].changes[2].file
        /\ \E i \in 1..Len(inv[r].trace) :
              inv[r].trace[i].ev = "commit" /\ ~inv[r].trace[i].ok

\* the references of the commit calls that were accepted, in call order
AcceptedRefs(r) ==
    LET calls == CommitEvents(inv[r])
        accepted == SelectSeq([i \in 1..Len(calls) |-> i],
                              LAMBDA i : calls[i].ok)
    IN [j \in 1..Len(accepted) |-> [req |-> r, n |-> accepted[j]]]

\* C5 (as stated): the reference list of a successful run has one reference
\* per attempted mirror, so its length is the number of edits.
C5_OneRefPerAttempt ==
    \A r \in Reqs :
        inv[r].pc = "done" /\ inv[r].res.success =>
            Len(inv[r].res.commits) = Len(inv[r].res.changes)

\* C5 (amended): the reference list holds one reference per mirror call that
\* succeeded, in edit order, and nothing for a failed one; its length is at
\* most the number of edits.
C5_OneRefPerSuccessfulMirror ==
    \A r \in Reqs :
        /\ inv[r].commits = AcceptedRefs(r)
        /\ inv[r].pc = "done" /\ inv[r].res.success =>
              /\ inv[r].res.commits = AcceptedRefs(r)
              /\ Len(inv[r].res.commits) <= Len(inv[r].res.changes)

C5_Witness ==
    \E r \in Reqs :
        /\ inv[r].pc = "done" /\ inv[r].res.success
        /\ Len(inv[r].res.changes) = 2
        /\ Len(inv[r].res.commits) = 1

Rank(ev) ==
    CASE ev = "hydrate" -> 0
      [] ev = "planCall" -> 1
      [] ev \in {"planReturn", "planFail"} -> 2
      [] ev = "tool" -> 3
      [] ev = "execCall" -> 4
      [] ev \in {"execReturn", "execFail"} -> 5
      [] ev = "apply" -> 6
      [] ev = "commit" -> 7

\* C6: the phases of one invocation occur in the order Planning, Gathering,
\* Executing, Applied: a tool is dispatched only after the planning call
\* returned, the execution call is made only when every understanding entry
\* has been processed, and edits are applied and mirrored only after the
\* execution call returned.
C6_PhasesInOrder ==
    \A r \in Reqs :
        LET t == inv[r].trace
            Before(j, name) == \E i \in 1..(j - 1) : t[i].ev = name
        IN /\ \A i, j \in 1..Len(t) :
                 i < j => Rank(t[i].ev) <= Rank(t[j].ev)
           /\ \A j \in 1..Len(t) :
                 /\ t[j].ev = "planReturn" => Before(j, "planCall")
                 /\ t[j].ev \in {"tool", "execCall"} =>
                       Before(j, "planReturn")
                 /\ t[j].ev = "execReturn" => Before(j, "execCall")
                 /\ t[j].ev \in {"apply", "commit"} =>
                       Before(j, "execReturn")
           /\ inv[r].pc = "executing" /\ inv[r].plan.hasUnderstanding =>
                 /\ inv[r].idx = Len(inv[r].plan.understanding) + 1
                 /\ Len(SelectSeq(t, LAMBDA e : e.ev = "tool")) =
                    Len(SelectSeq(inv[r].plan.understanding,
                                  LAMBDA st : st.tool \in KnownTools))

C6_Witness ==
    \E r \in Reqs :
        /\ inv[r].pc = "done" /\ inv[r].res.success
        /\ Len(SelectSeq(inv[r].trace, LAMBDA e : e.ev = "tool")) = 2
        /\ Len(CommitEvents(inv[r])) = 2

\* C10: every answer of GET /health is 200 with status "healthy", and the
\* step that answers issues no outbound call and changes neither a request
\* in flight nor a workspace nor the repository, whatever the state of the
\* server and of the LLM backend.
C10_HealthAlwaysHealthy ==
    [][healthRes' # healthRes =>
          /\ healthRes'.status = 200
          /\ healthRes'.body.status = "healthy"
          /\ issued' = {}
          /\ UNCHANGED <<inv, workspaces, remote,
                   genReq>>]_vars

C10_Witness ==
    /\ healthRes.status = 200
    /\ healthRes.body.version = "3.0.0"
    /\ ~llmUp
    /\ \E r \in Reqs : inv[r].pc = "planning"

----------------------------------------------------------------------------
(* Properties of applyPatch called on a workspace *)

\* the mapping an object holds, without the insertion order
AsMap(obj) == {obj[i] : i \in 1..Len(obj)}

IsWrite(change) == change.type \in {"create", "update"}

\* C2: applying a create or update edit a second time, right after applying
\* it once, leaves the workspace file mapping as the first application
\* left it.
C2_ReapplyIsIdempotent ==
    \A p \in Projects :
        (/\ toolIn.repeat
         /\ Len(toolIn.changes) = 1
         /\ IsWrite(toolIn.changes[1]))
        => AsMap(workspaces[p].files) = AsMap(toolIn.preFiles)

C2_Witness ==
    /\ toolIn.repeat
    /\ toolIn.changes = <<Edit("create", pA, cHi)>>
    /\ toolOut.tool = "patch"
    /\ Get(workspaces["p1"].files, pA) = cHi

\* C3: a delete edit for a path that is not in the workspace is a no-op:
\* applyPatch raises nothing and changes no state, neither the workspace nor
\* the repository.
C3_DeleteMissingIsNoOp ==
    \A p \in Projects :
        (/\ Len(toolIn.changes) = 1
         /\ toolIn.changes[1].type = "delete"
         /\ ~Has(toolIn.preFiles, toolIn.changes[1].file))
        => /\ ~toolOut.threw
           /\ workspaces[p].files = toolIn.preFiles
           /\ remote[p] = toolIn.preRemote

\* the last edit of the list that names the path
LastEditFor(changes, path) ==
    changes[CHOOSE i \in 1..Len(changes) :
               /\ changes[i].file = path
               /\ \A j \in (i + 1)..Len(changes) : changes[j].file # path]

\* C19: last write wins. A workspace never holds two entries for one path;
\* after a list of edits was applied, a path named by the list holds the
\* content of the last create or update edit for it, or is absent when the
\* last edit for it was a delete, and a path the list does not name is as
\* it was.
C19_LastWriteWins ==
    \A p \in Projects :
        LET W == workspaces[p].files
            changes == toolIn.changes
            called == toolIn.tool = "patch" \/ toolOut.tool = "patch"
            wellFormed == \A i \in 1..Len(changes) : changes[i] # NullEntry
        IN /\ \A i, j \in 1..Len(W) : W[i].path = W[j].path => i = j
           /\ called /\ wellFormed =>
                 \A path \in Keys(W) \cup Keys(toolIn.preFiles)
                              \cup {changes[i].file : i \in 1..Len(changes)} :
                    IF \E i \in 1..Len(changes) : changes[i].file = path
                    THEN LET last == LastEditFor(changes, path)
                         IN IF IsWrite(last)
                            THEN /\ Has(W, path)
                                 /\ Get(W, path) = ContentOf(last)
                            ELSE ~Has(W, path)
                    ELSE /\ Has(W, path) /\ Has(toolIn.preFiles, path)
                         /\ Get(W, path) = Get(toolIn.preFiles, path)

C19_Witness ==
    /\ toolOut.tool = "patch"
    /\ toolIn.changes = <<Edit("create", pA, cHi), Edit("update", pA, <<>>)>>
    /\ Has(toolIn.preFiles, pA) /\ Get(toolIn.preFiles, pA) = cHi
    /\ Get(workspaces["p1"].files, pA) = <<>>
    /\ Len(workspaces["p1"].files) = 2

----------------------------------------------------------------------------
(* Properties of the read-only tools *)

endsWith(s, t) ==
    Len(s) >= Len(t) /\ SubSeq(s, Len(s) - Len(t) + 1, Len(s)) = t

\* C7: searchCodebase returns exactly one entry for each file with at least
\* one line containing the query case-insensitively, no entry for any other
\* file, and each entry's matches are all such lines, verbatim, in order.
C7_SearchOneEntryPerMatchingFile ==
    \A p \in Projects :
        toolOut.tool = "search" /\ workspaces[p].present =>
            LET files == workspaces[p].files
                out == toolOut.list
                q == toLowerCase(toolIn.query)
                Matching(content) ==
                    SelectSeq(split(content, NL),
                              LAMBDA line : includes(toLowerCase(line), q))
                EntriesOf(path) ==
                    {j \in 1..Len(out) : out[j].file = path}
            IN /\ \A j \in 1..Len(out) : Has(files, out[j].file)
               /\ \A i \in 1..Len(files) :
                     IF Matching(files[i].content) # <<>>
                     THEN /\ Cardinality(EntriesOf(files[i].path)) = 1
                          /\ \A j \in EntriesOf(files[i].path) :
                                out[j].matches = Matching(files[i].content)
                     ELSE EntriesOf(files[i].path) = {}

\* C8: locateFiles returns its entries by non-increasing relevance, a path
\* scoring 0.9 when the task mentions "component" and the path contains
\* "component", 0.8 when the task mentions "style" and the path ends in the
\* stylesheet extension, 0.5 for a source-code extension, every other path
\* being left out.  (Relevance is counted in tenths.)
C8_LocateScoresAndOrder ==
    \A p \in Projects :
        toolOut.tool = "locate" /\ workspaces[p].present =>
            LET files == workspaces[p].files
                out == toolOut.list
                task == toLowerCase(toolIn.query)
                Claimed(path) ==
                    IF includes(task, sCOMPONENT)
                       /\ includes(path, sCOMPONENT) THEN 9
                    ELSE IF includes(task, sSTYLE) /\ endsWith(path, sCSS)
                    THEN 8
                    ELSE IF includes(path, sJS) \/ includes(path, sJSX)
                            \/ includes(path, sTS) THEN 5
                    ELSE 0
                EntriesOf(path) ==
                    {j \in 1..Len(out) : out[j].file = path}
            IN /\ \A i, j \in 1..Len(out) :
                     i < j => out[i].relevance >= out[j].relevance
               /\ \A j \in 1..Len(out) : Has(files, out[j].file)
               /\ \A i \in 1..Len(files) :
                     IF Claimed(files[i].path) > 0
                     THEN /\ Cardinality(EntriesOf(files[i].path)) = 1
                          /\ \A j \in EntriesOf(files[i].path) :
                                out[j].relevance = Claimed(files[i].path)
                     ELSE EntriesOf(files[i].path) = {}

\* C9: the keys of the mapping readFiles returns are exactly the requested
\* paths that are present in the workspace, each mapped to the file's
\* content.
C9_ReadReturnsPresentPaths ==
    \A p \in Projects :
        toolOut.tool = "cat" /\ workspaces[p].present =>
            LET files == workspaces[p].files
                requested == {toolIn.files[i] : i \in 1..Len(toolIn.files)}
            IN /\ Keys(toolOut.list) = requested \cap Keys(files)
               /\ \A path \in Keys(toolOut.list) :
                     Get(toolOut.list, path) = Get(files, path)

----------------------------------------------------------------------------
(* POST /v1/projects/create of revisions 2.0.0 and 3.0.0 *)

MaxRejected == 1

CreateVersions == {"2.0.0", "3.0.0"}

\* the complexity of the request body; a body without one means 'simple',
\* "other" is any string that is neither 'simple' nor 'complex'
Complexities == {"simple", "complex", "other"}

\* project.id of the inserted row (3.0.0), uuidv4() (2.0.0)
NewProjectId == "p1"

\* a template text in which complexity does not occur
tText == <<"t">>

\* a template text with a part under complexity === 'complex'
ByComplexity(complexity) ==
    IF complexity = "complex" THEN <<"c">> ELSE <<"s">>

\* generateReadme: the text embeds the complexity string
ReadmeText(complexity) ==
    <<"#">> \o (CASE complexity = "simple" -> <<"s">>
                  [] complexity = "complex" -> <<"c">>
                  [] OTHER -> <<"o">>)

\* generateProjectStructure of revision 2.0.0
generateProjectStructure200(complexity) ==
    LET baseStructure ==
          << File(<<"p","a","c","k","a","g","e",".","j","s","o","n">>,
                 ByComplexity(complexity)),
            File(<<"R","E","A","D","M","E",".","m","d">>,
                 ReadmeText(complexity)),
            File(<<".","g","i","t","i","g","n","o","r","e">>,
                 tText),
            File(<<"s","r","c","/","A","p","p",".","j","s">>,
                 ByComplexity(complexity)),
            File(<<"s","r","c","/","i","n","d","e","x",".","j","s">>,
                 tText),
            File(<<"s","r","c","/","i","n","d","e","x",".","c","s","s">>,
                 tText),
            File(<<"p","u","b","l","i","c","/","i","n","d","e","x",".","h","t","m","l">>,
                 tText) >>
        complexStructure ==
          << File(<<"b","a","c","k","e","n","d","/","p","a","c","k","a","g","e",".","j","s","o","n">>,
                 tText),
            File(<<"b","a","c","k","e","n","d","/","s","e","r","v","e","r",".","j","s">>,
                 tText),
            File(<<"b","a","c","k","e","n","d","/","p","r","i","s","m","a","/","s","c","h","e","m","a",".","p","r","i","s","m","a">>,
                 tText),
            File(<<"b","a","c","k","e","n","d","/","r","o","u","t","e","s","/","a","u","t","h",".","j","s">>,
                 tText),
            File(<<"b","a","c","k","e","n","d","/","r","o","u","t","e","s","/","a","p","i",".","j","s">>,
                 tText),
            File(<<"b","a","c","k","e","n","d","/","m","i","d","d","l","e","w","a","r","e","/","a","u","t","h",".","j","s">>,
                 tText),
            File(<<"s","r","c","/","c","o","n","t","e","x","t","s","/","A","u","t","h","C","o","n","t","e","x","t",".","j","s">>,
                 tText),
            File(<<"s","r","c","/","c","o","m","p","o","n","e","n","t","s","/","D","a","s","h","b","o","a","r","d",".","j","s">>,
                 tText),
            File(<<"s","r","c","/","c","o","m","p","o","n","e","n","t","s","/","L","o","g","i","n",".","j","s">>,
                 tText),
            File(<<"d","o","c","k","e","r","-","c","o","m","p","o","s","e",".","y","m","l">>,
                 tText),
            File(<<".","e","n","v",".","e","x","a","m","p","l","e">>,
                 tText) >>
    IN IF complexity = "complex" THEN baseStructure \o complexStructure
       ELSE baseStructure

\* generateProjectStructure of revision 3.0.0: complexity is not read
generateProjectStructure(complexity) ==
    << File(<<"s","r","c","/","A","p","p",".","j","s","x">>, tText),
       File(<<"p","a","c","k","a","g","e",".","j","s","o","n">>, tText) >>

\* Object.keys(obj)
ObjectKeys(obj) == [i \in 1..Len(obj) |-> obj[i].path]

\* variant: the workspace keeps the empty mapping it was created with
createWorkspaceEmpty(structure) == Workspace(<<>>)

\* agent.workspaces.set(project.id, {..., files: {}}) followed by
\* agent.workspaces.get(project.id).files = projectStructure (3.0.0);
\* projects.set(projectId, {..., files: projectStructure}) (2.0.0)
createWorkspace(structure) == Workspace(structure)

\* res.status(500).json({error}) of the create handler
createFailed(message) ==
    [createReq EXCEPT !.pc = "done",
                      !.res = [NoCreateRes EXCEPT !.status = 500,
                                                  !.error = message]]

CreateRequest(version, complexity) ==
    /\ createReq.pc = "idle"
    /\ createReq' = [createReq EXCEPT !.pc = "repo", !.version = version,
                                      !.complexity = complexity]
    /\ issued' = {"github"}
    /\ UNCHANGED <<workspaces, remote, toolIn, toolOut, inv, llmUp,
                   healthRes, projects, chatDb, chatReq,
                   genReq>>

\* createForAuthenticatedUser answered (auto_init adds a README.md)
CreateRepoReturn(ok) ==
    /\ createReq.pc = "repo"
    /\ IF ~ok
       THEN /\ createReq' = createFailed("github")
            /\ issued' = {}
            /\ UNCHANGED remote
       ELSE /\ remote' = [remote EXCEPT ![NewProjectId] =
                            <<File(pReadme, <<"i">>)>>]
            /\ IF createReq.version = "3.0.0"
               THEN /\ createReq' = [createReq EXCEPT !.pc = "insert"]
                    /\ issued' = {"db"}
               ELSE /\ createReq' = [createReq EXCEPT
                         !.pc = "commit", !.k = 1,
                         !.structure =
                            generateProjectStructure200(createReq.complexity)]
                    /\ issued' = {"github"}
    /\ UNCHANGED <<workspaces, toolIn, toolOut, inv, llmUp, healthRes,
                   projects, chatDb, chatReq,
                   genReq>>

\* revision 3.0.0: the insert into the projects table answered
CreateInsertReturn(dbOk) ==
    LET projectStructure == generateProjectStructure(createReq.complexity)
    IN /\ createReq.pc = "insert"
       /\ IF ~dbOk
          THEN /\ createReq' = createFailed("db")
               /\ issued' = {}
               /\ UNCHANGED workspaces
          ELSE /\ workspaces' = [workspaces EXCEPT ![NewProjectId] =
                                   createWorkspace(projectStructure)]
               /\ createReq' = [createReq EXCEPT
                     !.pc = "commit", !.k = 1,
                     !.structure = projectStructure]
               /\ issued' = {"github"}
       /\ UNCHANGED <<remote, toolIn, toolOut, inv, llmUp, healthRes,
                      projects, chatDb, chatReq,
                   genReq>>

\* commitFilesToRepo: the commit call of entry k answered; a rejected call is
\* logged and the loop goes on. After the last entry the handler answers;
\* in 3.0.0 projectStructure is the object the workspace holds.
CreateCommitReturn(ok) ==
    LET entry == createReq.structure[createReq.k]
        last == createReq.k >= Len(createReq.structure)
        stored == IF createReq.version = "3.0.0"
                  THEN workspaces[NewProjectId].files
                  ELSE createReq.structure
    IN /\ createReq.pc = "commit"
       /\ ~ok => createReq.rejected < MaxRejected
       /\ remote' = [remote EXCEPT ![NewProjectId] =
                       IF ok THEN Put(@, entry.path, entry.content) ELSE @]
       /\ IF ~last
          THEN /\ createReq' = [createReq EXCEPT
                     !.k = @ + 1,
                     !.rejected = IF ok THEN @ ELSE @ + 1]
               /\ issued' = {"github"}
               /\ UNCHANGED projects
          ELSE /\ projects' =
                    IF createReq.version = "2.0.0"
                    THEN [projects EXCEPT ![NewProjectId] =
                            createWorkspace(createReq.structure)]
                    ELSE projects
               /\ createReq' = [createReq EXCEPT
                     !.pc = "done",
                     !.rejected = IF ok THEN @ ELSE @ + 1,
                     !.res = [NoCreateRes EXCEPT
                                !.status = 200,
                                !.project_id = NewProjectId,
                                !.initial_structure = ObjectKeys(stored)]]
               /\ issued' = {}
       /\ UNCHANGED <<workspaces, toolIn, toolOut, inv, llmUp, healthRes,
                      chatDb, chatReq,
                   genReq>>

InitCreate ==
    /\ workspaces = [p \in Projects |-> NoWorkspace]
    /\ remote = [p \in Projects |-> <<>>]
    /\ toolIn = NoTool
    /\ toolOut = NoOut
    /\ inv = [r \in Reqs |-> IdleReq]
    /\ llmUp = TRUE
    /\ issued = {}
    /\ healthRes = NoHealth
    /\ EndpointsIdle

NextCreate ==
    \/ \E version \in CreateVersions, complexity \in Complexities :
          CreateRequest(version, complexity)
    \/ \E ok \in BOOLEAN : CreateRepoReturn(ok)
    \/ \E dbOk \in BOOLEAN : CreateInsertReturn(dbOk)
    \/ \E ok \in BOOLEAN : CreateCommitReturn(ok)

SpecCreate == InitCreate /\ [][NextCreate]_vars

\* the store of the revision that served the request
StoreOf(version) == IF version = "3.0.0" THEN workspaces ELSE projects

\* the scaffold the revision generates for a complexity
ScaffoldOf(version, complexity) ==
    IF version = "3.0.0" THEN generateProjectStructure(complexity)
    ELSE generateProjectStructure200(complexity)

\* C17: after a create request answered with 200, the store holds a
\* workspace for the new project id whose files are the scaffold generated
\* for the requested complexity, and initial_structure of the response lists
\* the paths of that scaffold.
C17_CreateSeedsWorkspace ==
    createReq.pc = "done" /\ createReq.res.status = 200 =>
        LET scaffold == ScaffoldOf(createReq.version, createReq.complexity)
            store == StoreOf(createReq.version)[createReq.res.project_id]
        IN /\ store.present
           /\ store.files = scaffold
           /\ createReq.res.initial_structure = ObjectKeys(scaffold)

C17_Witness ==
    /\ createReq.pc = "done" /\ createReq.res.status = 200
    /\ createReq.version = "2.0.0" /\ createReq.complexity = "complex"
    /\ Len(projects[NewProjectId].files) = 18
    /\ createReq.rejected = 1
    /\ Len(createReq.res.initial_structure) = 18

----------------------------------------------------------------------------
(* POST /v1/projects/:projectId/chat of revision 2.1.0 *)

kCommit == <<"c","o","m","m","i","t">>
kApprove == <<"a","p","p","r","o","v","e">>
kLooksGood == <<"l","o","o","k","s"," ","g","o","o","d">>
kPerfect == <<"p","e","r","f","e","c","t">>
kDeploy == <<"d","e","p","l","o","y">>
kPush == <<"p","u","s","h">>
kChange == <<"c","h","a","n","g","e">>
kModify == <<"m","o","d","i","f","y">>
kUpdate == <<"u","p","d","a","t","e">>
kMakeIt == <<"m","a","k","e"," ","i","t">>
kAdd == <<"a","d","d">>
kRemove == <<"r","e","m","o","v","e">>

\* variant: the message is matched as typed
analyzeUserIntentCaseSensitive(message) ==
    LET msg == message
    IN IF \/ includes(msg, kCommit) \/ includes(msg, kApprove)
          \/ includes(msg, kLooksGood) \/ includes(msg, kPerfect)
          \/ includes(msg, kDeploy) \/ includes(msg, kPush)
       THEN "approve"
       ELSE IF \/ includes(msg, kChange) \/ includes(msg, kModify)
               \/ includes(msg, kUpdate) \/ includes(msg, kMakeIt)
               \/ includes(msg, kAdd) \/ includes(msg, kRemove)
       THEN "modify"
       ELSE "general"

\* the type of the intent analyzeUserIntent returns
analyzeUserIntent(message) ==
    LET msg == toLowerCase(message)
    IN IF \/ includes(msg, kCommit) \/ includes(msg, kApprove)
          \/ includes(msg, kLooksGood) \/ includes(msg, kPerfect)
          \/ includes(msg, kDeploy) \/ includes(msg, kPush)
       THEN "approve"
       ELSE IF \/ includes(msg, kChange) \/ includes(msg, kModify)
               \/ includes(msg, kUpdate) \/ includes(msg, kMakeIt)
               \/ includes(msg, kAdd) \/ includes(msg, kRemove)
       THEN "modify"
       ELSE "general"

\* the backquote character, written "|" in this module
bq == "|"

\* the three backquotes that open and close a code block
fence == <<bq, bq, bq>>

startsWithAt(s, i, t) ==
    i + Len(t) - 1 <= Len(s) /\ SubSeq(s, i, i + Len(t) - 1) = t

\* the least index >= from at which t occurs in s, 0 when there is none
indexOfFrom(s, t, from) ==
    IF \E i \in from..Len(s) : startsWithAt(s, i, t)
    THEN CHOOSE i \in from..Len(s) :
            /\ startsWithAt(s, i, t)
            /\ \A j \in from..(i - 1) : ~startsWithAt(s, j, t)
    ELSE 0

\* aiResponse.match(/<fence>[\s\S]*?<fence>/g): the blocks, left to right
RECURSIVE matchFences(_, _)
matchFences(s, from) ==
    LET a == indexOfFrom(s, fence, from)
        b == IF a = 0 THEN 0 ELSE indexOfFrom(s, fence, a + 3)
    IN IF a = 0 \/ b = 0 THEN <<>>
       ELSE <<SubSeq(s, a, b + 2)>> \o matchFences(s, b + 3)

\* s.replace(/<fence>jsx?/g, '')
RECURSIVE removeFenceJs(_, _)
removeFenceJs(s, i) ==
    IF i > Len(s) THEN <<>>
    ELSE IF startsWithAt(s, i, fence \o <<"j","s","x">>)
    THEN removeFenceJs(s, i + 6)
    ELSE IF startsWithAt(s, i, fence \o <<"j","s">>)
    THEN removeFenceJs(s, i + 5)
    ELSE <<s[i]>> \o removeFenceJs(s, i + 1)

\* s.replace(/<fence>/g, '')
RECURSIVE removeFence(_, _)
removeFence(s, i) ==
    IF i > Len(s) THEN <<>>
    ELSE IF startsWithAt(s, i, fence) THEN removeFence(s, i + 3)
    ELSE <<s[i]>> \o removeFence(s, i + 1)

WhiteSpace == {" ", "\n", "\t"}

RECURSIVE trimStart(_)
trimStart(s) ==
    IF s # <<>> /\ Head(s) \in WhiteSpace THEN trimStart(Tail(s)) ELSE s

RECURSIVE trimEnd(_)
trimEnd(s) ==
    IF s # <<>> /\ s[Len(s)] \in WhiteSpace
    THEN trimEnd(SubSeq(s, 1, Len(s) - 1)) ELSE s

trim(s) == trimEnd(trimStart(s))

Digits == <<"0","1","2","3","4","5","6","7","8","9">>

\* the key 'src/component_' + index + '.jsx', for index < 10
componentPath(index) ==
    <<"s","r","c","/","c","o","m","p","o","n","e","n","t","_">> \o <<Digits[index + 1]>> \o <<".","j","s","x">>

\* parseGeneratedCode: one entry per fenced block
parseGeneratedCode(aiResponse) ==
    LET matches == IF includes(aiResponse, fence)
                   THEN matchFences(aiResponse, 1) ELSE <<>>
    IN [i \in 1..Len(matches) |->
          File(componentPath(i - 1),
               trim(removeFence(removeFenceJs(matches[i], 1), 1)))]

mCommit == <<"C","o","m","m","i","t"," ","i","t">>
mDeploy == <<"d","e","p","l","o","y">>
mAdd == <<"A","d","d"," ","x">>
mHello == <<"h","e","l","l","o">>
mBoth == <<"u","p","d","a","t","e",","," ","p","u","s","h">>

aPlain == <<"o","k">>
aOne == <<bq,bq,bq,"j","s","x","\n","A",bq,bq,bq>>
aTwo == <<bq,bq,bq,"j","s","\n","A",bq,bq,bq,"+",bq,bq,bq,"B"," ",bq,bq,bq>>

ChatMessages == {mCommit, mDeploy, mAdd, mHello, mBoth}

AiTexts == {aPlain, aOne, aTwo}

\* session_id of the request body: absent, an existing id, an unknown id
SessionArgs == {"", "s1", "sX"}

SessionIds == <<"s1", "s2">>

SessionRow(id, project) == [id |-> id, project_id |-> project]

MessageRow(session, role, action, c) ==
    [session_id |-> session, role |-> role, action_taken |-> action,
     req |-> c]

PendingRow(session, file) ==
    [session_id |-> session, file_path |-> file.path,
     content |-> file.content, status |-> "pending"]

Call(name, ok) == [call |-> name, ok |-> ok]

\* createOrUpdateFileContents(path: codeItem.file_path, content:
\* codeItem.content) and whether it succeeded
CommitCall(codeItem, ok) ==
    [call |-> "commit", ok |-> ok, path |-> codeItem.file_path,
     content |-> codeItem.content]

\* res.status(status).json(...) of the chat handler
chatRespond(q, status, error) ==
    [q EXCEPT !.pc = "done", !.rows = <<>>, !.codeFiles = <<>>, !.k = 0,
              !.res = [status |-> status,
                       action_taken |-> IF status = 200 THEN q.action
                                        ELSE "",
                       session_id |-> IF status = 200 THEN q.session
                                      ELSE "",
                       error |-> error]]

ChatRequest(c, projectId, message, sessionArg) ==
    /\ chatReq[c].pc = "idle"
    /\ chatReq' = [chatReq EXCEPT ![c].pc = "lookup",
                                  ![c].projectId = projectId,
                                  ![c].message = message,
                                  ![c].sessionArg = sessionArg]
    /\ issued' = {"db"}
    /\ UNCHANGED <<workspaces, toolIn, toolOut, inv, llmUp, healthRes,
                   projects, createReq, remote, chatDb,
                   genReq>>

\* variant: the user message is stored before the project is looked at
ChatLookupReturnLate(c, dbOk) ==
    LET q == chatReq[c]
        found == dbOk /\ q.projectId \in Projects
    IN /\ q.pc = "lookup"
       /\ chatDb' = [chatDb EXCEPT
             !.messages = Append(@, MessageRow(q.session, "user", "", c))]
       /\ IF ~found
          THEN /\ chatReq' = [chatReq EXCEPT ![c] =
                    chatRespond(q, 404, "Project not found")]
               /\ issued' = {}
          ELSE /\ chatReq' = [chatReq EXCEPT ![c].pc =
                    IF q.sessionArg # "" THEN "sessionById"
                    ELSE "sessionMain"]
               /\ issued' = {"db"}
       /\ UNCHANGED <<workspaces, toolIn, toolOut, inv, llmUp, healthRes,
                   projects, createReq, remote, genReq>>

\* the select on projects answered
ChatLookupReturn(c, dbOk) ==
    LET q == chatReq[c]
        found == dbOk /\ q.projectId \in Projects
    IN /\ q.pc = "lookup"
       /\ IF ~found
          THEN /\ chatReq' = [chatReq EXCEPT ![c] =
                    chatRespond(q, 404, "Project not found")]
               /\ issued' = {}
          ELSE /\ chatReq' = [chatReq EXCEPT ![c].pc =
                    IF q.sessionArg # "" THEN "sessionById"
                    ELSE "sessionMain"]
               /\ issued' = {"db"}
       /\ UNCHANGED <<workspaces, toolIn, toolOut, inv, llmUp, healthRes,
                   projects, createReq, remote, chatDb,
                   genReq>>

\* session_id given: the select by id answered; with no such row
\* chatSession is null and reading chatSession.id throws
ChatSessionById(c) ==
    LET q == chatReq[c]
        exists == \E i \in 1..Len(chatDb.sessions) :
                     chatDb.sessions[i].id = q.sessionArg
    IN /\ q.pc = "sessionById"
       /\ IF exists
          THEN /\ chatReq' = [chatReq EXCEPT ![c].pc = "history",
                                             ![c].session = q.sessionArg]
               /\ issued' = {"db"}
          ELSE /\ chatReq' = [chatReq EXCEPT ![c] =
                    chatRespond(q, 500, "TypeError")]
               /\ issued' = {}
       /\ UNCHANGED <<workspaces, toolIn, toolOut, inv, llmUp, healthRes,
                   projects, createReq, remote, chatDb,
                   genReq>>

\* no session_id: the select of the project's sessions answered
ChatSessionMain(c) ==
    LET q == chatReq[c]
        sessions == SelectSeq(chatDb.sessions,
                              LAMBDA row : row.project_id = q.projectId)
    IN /\ q.pc = "sessionMain"
       /\ chatReq' = [chatReq EXCEPT
             ![c].pc = IF sessions # <<>> THEN "history"
                       ELSE "sessionInsert",
             ![c].session = IF sessions # <<>> THEN sessions[1].id ELSE ""]
       /\ issued' = {"db"}
       /\ UNCHANGED <<workspaces, toolIn, toolOut, inv, llmUp, healthRes,
                   projects, createReq, remote, chatDb,
                   genReq>>

\* the insert of the 'Main Chat' session answered
ChatSessionInsert(c) ==
    LET q == chatReq[c]
        id == SessionIds[Len(chatDb.sessions) + 1]
    IN /\ q.pc = "sessionInsert"
       /\ Len(chatDb.sessions) < Len(SessionIds)
       /\ chatDb' = [chatDb EXCEPT
             !.sessions = Append(@, SessionRow(id, q.projectId))]
       /\ chatReq' = [chatReq EXCEPT ![c].pc = "history", ![c].session = id]
       /\ issued' = {"db"}
       /\ UNCHANGED <<workspaces, toolIn, toolOut, inv, llmUp, healthRes,
                   projects, createReq, remote,
                   genReq>>

\* the select of the chat history answered; the user message is inserted
ChatHistoryReturn(c) ==
    /\ chatReq[c].pc = "history"
    /\ chatReq' = [chatReq EXCEPT ![c].pc = "storeUser"]
    /\ issued' = {"db"}
    /\ UNCHANGED <<workspaces, toolIn, toolOut, inv, llmUp, healthRes,
                   projects, createReq, remote, chatDb,
                   genReq>>

\* the insert of the user message answered; analyzeUserIntent and the
\* first call of the branch taken
ChatUserStored(c) ==
    LET q == chatReq[c]
        intent == analyzeUserIntent(q.message)
    IN /\ q.pc = "storeUser"
       /\ chatDb' = [chatDb EXCEPT
             !.messages = Append(@, MessageRow(q.session, "user", "", c))]
       /\ chatReq' = [chatReq EXCEPT
             ![c].intent = intent,
             ![c].pc = IF intent = "approve" THEN "pendingSelect" ELSE "llm"]
       /\ issued' = IF intent = "approve" THEN {"db"} ELSE {"llm"}
       /\ UNCHANGED <<workspaces, toolIn, toolOut, inv, llmUp, healthRes,
                   projects, createReq, remote,
                   genReq>>

\* approve: the select of the session's pending rows answered
ChatPendingReturn(c) ==
    LET q == chatReq[c]
        pendingCode == SelectSeq(chatDb.pending,
                          LAMBDA row : /\ row.session_id = q.session
                                       /\ row.status = "pending")
    IN /\ q.pc = "pendingSelect"
       /\ IF pendingCode # <<>>
          THEN /\ chatReq' = [chatReq EXCEPT ![c].pc = "commit",
                                             ![c].rows = pendingCode,
                                             ![c].k = 1]
               /\ issued' = {"github"}
          ELSE /\ chatReq' = [chatReq EXCEPT
                     ![c].pc = "storeAssistant",
                     ![c].action = "no_pending_code"]
               /\ issued' = {"db"}
       /\ UNCHANGED <<workspaces, toolIn, toolOut, inv, llmUp, healthRes,
                   projects, createReq, remote, chatDb,
                   genReq>>

\* commitPendingCodeToGitHub: the commit call of row k answered; a rejected
\* call is logged and the loop goes on
ChatCommitReturn(c, ok) ==
    LET q == chatReq[c]
        codeItem == q.rows[q.k]
        called == [q EXCEPT !.calls = Append(@, CommitCall(codeItem, ok))]
    IN /\ q.pc = "commit"
       /\ remote' = [remote EXCEPT ![q.projectId] =
             IF ok THEN Put(@, codeItem.file_path, codeItem.content) ELSE @]
       /\ IF q.k < Len(q.rows)
          THEN /\ chatReq' = [chatReq EXCEPT ![c] =
                    [called EXCEPT !.k = q.k + 1]]
               /\ issued' = {"github"}
          ELSE /\ chatReq' = [chatReq EXCEPT ![c] =
                    [called EXCEPT !.pc = "markCommitted"]]
               /\ issued' = {"db"}
       /\ UNCHANGED <<workspaces, toolIn, toolOut, inv, llmUp, healthRes,
                   projects, createReq, chatDb,
                   genReq>>

\* the update of the session's pending rows to 'committed' answered
ChatMarkReturn(c) ==
    LET q == chatReq[c]
    IN /\ q.pc = "markCommitted"
       /\ chatDb' = [chatDb EXCEPT !.pending =
             [i \in 1..Len(@) |->
                IF @[i].session_id = q.session /\ @[i].status = "pending"
                THEN [@[i] EXCEPT !.status = "committed"] ELSE @[i]]]
       /\ chatReq' = [chatReq EXCEPT ![c].pc = "storeAssistant",
                                     ![c].action = "committed_to_github"]
       /\ issued' = {"db"}
       /\ UNCHANGED <<workspaces, toolIn, toolOut, inv, llmUp, healthRes,
                   projects, createReq, remote,
                   genReq>>

\* callClaudeAPI rejects: the error reaches the catch block of the handler
ChatLLMFail(c) ==
    LET q == chatReq[c]
    IN /\ q.pc = "llm"
       /\ chatReq' = [chatReq EXCEPT ![c] =
             chatRespond([q EXCEPT !.calls = Append(@, Call("llm", FALSE))],
                         500, "upstream")]
       /\ issued' = {}
       /\ UNCHANGED <<workspaces, toolIn, toolOut, inv, llmUp, healthRes,
                   projects, createReq, remote, chatDb,
                   genReq>>

\* callClaudeAPI answered: modify parses the code blocks and deletes the
\* session's pending rows; general takes the text as the response
ChatLLMReturn(c, text) ==
    LET q == chatReq[c]
        called == [q EXCEPT !.calls = Append(@, Call("llm", TRUE))]
    IN /\ q.pc = "llm"
       /\ llmUp
       /\ IF q.intent = "modify"
          THEN chatReq' = [chatReq EXCEPT ![c] =
                  [called EXCEPT !.pc = "pendingDelete",
                                 !.codeFiles = parseGeneratedCode(text)]]
          ELSE chatReq' = [chatReq EXCEPT ![c] =
                  [called EXCEPT !.pc = "storeAssistant",
                                 !.action = "general_chat"]]
       /\ issued' = {"db"}
       /\ UNCHANGED <<workspaces, toolIn, toolOut, inv, llmUp, healthRes,
                   projects, createReq, remote, chatDb,
                   genReq>>

\* modify: the delete of the session's pending rows answered
ChatDeleteReturn(c) ==
    LET q == chatReq[c]
    IN /\ q.pc = "pendingDelete"
       /\ chatDb' = [chatDb EXCEPT !.pending =
             SelectSeq(@, LAMBDA row : ~(/\ row.session_id = q.session
                                         /\ row.status = "pending"))]
       /\ IF q.codeFiles # <<>>
          THEN chatReq' = [chatReq EXCEPT ![c].pc = "pendingInsert",
                                         ![c].k = 1]
          ELSE chatReq' = [chatReq EXCEPT ![c].pc = "storeAssistant",
                                         ![c].action = "code_modified"]
       /\ issued' = {"db"}
       /\ UNCHANGED <<workspaces, toolIn, toolOut, inv, llmUp, healthRes,
                   projects, createReq, remote,
                   genReq>>

\* modify: the insert of the pending row of code file k answered
ChatInsertReturn(c) ==
    LET q == chatReq[c]
    IN /\ q.pc = "pendingInsert"
       /\ chatDb' = [chatDb EXCEPT !.pending =
             Append(@, PendingRow(q.session, q.codeFiles[q.k]))]
       /\ IF q.k < Len(q.codeFiles)
          THEN chatReq' = [chatReq EXCEPT ![c].k = q.k + 1]
          ELSE chatReq' = [chatReq EXCEPT ![c].pc = "storeAssistant",
                                         ![c].action = "code_modified"]
       /\ issued' = {"db"}
       /\ UNCHANGED <<workspaces, toolIn, toolOut, inv, llmUp, healthRes,
                   projects, createReq, remote,
                   genReq>>

\* the insert of the assistant message answered; res.json(...)
ChatAssistantStored(c) ==
    LET q == chatReq[c]
    IN /\ q.pc = "storeAssistant"
       /\ chatDb' = [chatDb EXCEPT !.messages =
             Append(@, MessageRow(q.session, "assistant", q.action, c))]
       /\ chatReq' = [chatReq EXCEPT ![c] = chatRespond(q, 200, "")]
       /\ issued' = {}
       /\ UNCHANGED <<workspaces, toolIn, toolOut, inv, llmUp, healthRes,
                   projects, createReq, remote,
                   genReq>>

InitChat ==
    /\ workspaces = [p \in Projects |-> NoWorkspace]
    /\ remote = [p \in Projects |-> <<>>]
    /\ toolIn = NoTool
    /\ toolOut = NoOut
    /\ inv = [r \in Reqs |-> IdleReq]
    /\ llmUp = TRUE
    /\ issued = {}
    /\ healthRes = NoHealth
    /\ EndpointsIdle

\* two chat requests, the second sent when the first was answered
NextChat ==
    \/ \E id \in ProjectIds, message \in ChatMessages,
          sessionArg \in SessionArgs :
          ChatRequest("c1", id, message, sessionArg)
    \/ /\ chatReq["c1"].pc = "done"
       /\ \E id \in ProjectIds, message \in ChatMessages,
             sessionArg \in SessionArgs :
             ChatRequest("c2", id, message, sessionArg)
    \/ \E c \in ChatReqs, dbOk \in BOOLEAN : ChatLookupReturn(c, dbOk)
    \/ \E c \in ChatReqs : ChatSessionById(c)
    \/ \E c \in ChatReqs : ChatSessionMain(c)
    \/ \E c \in ChatReqs : ChatSessionInsert(c)
    \/ \E c \in ChatReqs : ChatHistoryReturn(c)
    \/ \E c \in ChatReqs : ChatUserStored(c)
    \/ \E c \in ChatReqs : ChatPendingReturn(c)
    \/ \E c \in ChatReqs, ok \in BOOLEAN : ChatCommitReturn(c, ok)
    \/ \E c \in ChatReqs : ChatMarkReturn(c)
    \/ \E c \in ChatReqs : ChatLLMFail(c)
    \/ \E c \in ChatReqs, text \in AiTexts : ChatLLMReturn(c, text)
    \/ \E c \in ChatReqs : ChatDeleteReturn(c)
    \/ \E c \in ChatReqs : ChatInsertReturn(c)
    \/ \E c \in ChatReqs : ChatAssistantStored(c)

SpecChat == InitChat /\ [][NextChat]_vars

ApproveWords == {kCommit, kApprove, kLooksGood, kPerfect, kDeploy, kPush}

ModifyWords == {kChange, kModify, kUpdate, kMakeIt, kAdd, kRemove}

\* the message contains one of the words, letter case ignored
Mentions(message, words) ==
    \E w \in words : includes(toLowerCase(message), w)

CallsOf(q, name) == SelectSeq(q.calls, LAMBDA e : e.call = name)

\* C14 as stated: every message is classified as one of approve, deploy,
\* modify, general; a message that mentions deploy (and no approve word) is
\* classified deploy and answered with deployment instructions, approve
\* goes to the commit step, modify invokes the agent workflow (a planning
\* call and an execution call), general makes one conversational LLM call.
C14_FourIntents ==
    \A c \in ChatReqs :
        LET q == chatReq[c]
        IN q.pc = "done" /\ q.res.status = 200 =>
              /\ q.intent \in {"approve", "deploy", "modify", "general"}
              /\ ( /\ Mentions(q.message, {kDeploy})
                   /\ ~Mentions(q.message, ApproveWords \ {kDeploy}) )
                 => /\ q.intent = "deploy"
                    /\ q.res.action_taken = "deployment_instructions"
              /\ q.intent = "approve" =>
                    /\ q.res.action_taken \in
                          {"committed_to_github", "commit_failed",
                           "no_pending_code"}
                    /\ CallsOf(q, "llm") = <<>>
              /\ q.intent = "modify" => Len(CallsOf(q, "llm")) = 2
              /\ q.intent = "general" =>
                    /\ q.res.action_taken = "general_chat"
                    /\ Len(CallsOf(q, "llm")) = 1

\* C14, amended: every message is classified as exactly one of approve,
\* modify, general by case-insensitive substring matching, the approve
\* words (deploy among them) tested first; approve goes to the commit step
\* and makes no LLM call, modify makes one LLM call and answers
\* code_modified, general makes one LLM call and answers general_chat;
\* only approve makes commit calls.
C14_ThreeIntents ==
    \A c \in ChatReqs :
        LET q == chatReq[c]
        IN /\ q.intent # "" =>
                q.intent = IF Mentions(q.message, ApproveWords) THEN "approve"
                           ELSE IF Mentions(q.message, ModifyWords)
                           THEN "modify"
                           ELSE "general"
           /\ q.intent # "approve" => CallsOf(q, "commit") = <<>>
           /\ q.intent = "approve" => CallsOf(q, "llm") = <<>>
           /\ q.pc = "done" /\ q.res.status = 200 =>
                 /\ q.intent = "approve" =>
                       /\ q.res.action_taken \in
                             {"committed_to_github", "commit_failed",
                              "no_pending_code"}
                       /\ q.res.action_taken = "committed_to_github" <=>
                             CallsOf(q, "commit") # <<>>
                 /\ q.intent = "modify" =>
                       /\ q.res.action_taken = "code_modified"
                       /\ CallsOf(q, "llm") = <<Call("llm", TRUE)>>
                 /\ q.intent = "general" =>
                       /\ q.res.action_taken = "general_chat"
                       /\ CallsOf(q, "llm") = <<Call("llm", TRUE)>>

C14_Witness ==
    /\ chatReq["c1"].pc = "done" /\ chatReq["c1"].message = mAdd
    /\ chatReq["c1"].res.action_taken = "code_modified"
    /\ chatReq["c2"].pc = "done" /\ chatReq["c2"].message = mDeploy
    /\ chatReq["c2"].res.action_taken = "committed_to_github"
    /\ Has(remote["p1"], componentPath(1))
    /\ Get(remote["p1"], componentPath(1)) = <<"B">>

\* the chat_messages rows a request inserted, in insertion order
MessagesOf(c) == SelectSeq(chatDb.messages, LAMBDA row : row.req = c)

\* C15: every chat request on an existing project that was answered has
\* stored one user message and then one assistant message in its session,
\* whatever the outcome of its LLM and GitHub calls.
C15_EveryTurnPersisted ==
    \A c \in ChatReqs :
        LET q == chatReq[c]
            rows == MessagesOf(c)
        IN q.pc = "done" /\ q.res.status # 404 =>
              /\ Len(rows) = 2
              /\ rows[1].role = "user" /\ rows[2].role = "assistant"
              /\ rows[1].session_id = rows[2].session_id

----------------------------------------------------------------------------
(* Two /agent requests, the second sent when the first was answered *)

SeqEdits == { Edit("create", pA, cHi), EditNoContent("delete", pA) }

SeqPlanTexts ==
    { JsonText(EmptyObj),
      JsonText(JsonObj(TRUE, <<StepNoTarget("tree")>>, FALSE, <<>>)) }

SeqExecTexts ==
    {Garbage(2)} \cup
    {JsonText(JsonObj(FALSE, <<>>, TRUE, c)) : c \in SeqsUpTo(SeqEdits, MaxEdits)}

InitSeq == Init /\ llmUp

NextSeq ==
    \/ \E id \in ProjectIds : AgentRequest("r1", id)
    \/ inv["r1"].pc = "done" /\ \E id \in ProjectIds : AgentRequest("r2", id)
    \/ \E r \in Reqs, dbOk \in BOOLEAN : LookupReturn(r, dbOk)
    \/ \E r \in Reqs, ok \in BOOLEAN : HydrateList(r, ok)
    \/ \E r \in Reqs, ok \in BOOLEAN : HydrateFile(r, ok)
    \/ \E r \in Reqs : PlanFail(r)
    \/ \E r \in Reqs, text \in SeqPlanTexts : PlanReturn(r, text)
    \/ \E r \in Reqs : GatherStep(r)
    \/ \E r \in Reqs : ExecCall(r)
    \/ \E r \in Reqs : ExecFail(r)
    \/ \E r \in Reqs, text \in SeqExecTexts : ExecReturn(r, text)
    \/ \E r \in Reqs, ok \in BOOLEAN : CommitReturn(r, ok)
    \/ \E r \in Reqs : Store1Return(r)
    \/ \E r \in Reqs : Store2Return(r)

SpecSeq == InitSeq /\ [][NextSeq]_vars

\* one /agent request, GET /health at any time, and an LLM backend that
\* comes and goes
NextHealth ==
    \/ \E r \in SpecReqs, id \in ProjectIds : AgentRequest(r, id)
    \/ \E r \in SpecReqs, dbOk \in BOOLEAN : LookupReturn(r, dbOk)
    \/ \E r \in SpecReqs, ok \in BOOLEAN : HydrateList(r, ok)
    \/ \E r \in SpecReqs, ok \in BOOLEAN : HydrateFile(r, ok)
    \/ \E r \in SpecReqs : PlanFail(r)
    \/ \E r \in SpecReqs, text \in SeqPlanTexts : PlanReturn(r, text)
    \/ \E r \in SpecReqs : GatherStep(r)
    \/ \E r \in SpecReqs : ExecCall(r)
    \/ \E r \in SpecReqs : ExecFail(r)
    \/ \E r \in SpecReqs, text \in SeqExecTexts : ExecReturn(r, text)
    \/ \E r \in SpecReqs, ok \in BOOLEAN : CommitReturn(r, ok)
    \/ \E r \in SpecReqs : Store1Return(r)
    \/ \E r \in SpecReqs : Store2Return(r)
    \/ \E version \in Versions : Health(version)
    \/ UpstreamFlip

SpecHealth == Init /\ [][NextHealth]_vars

\* the files an invocation left in the workspace it was entered with
FilesLeftBy(rec) ==
    IF HasEv(rec, "apply")
    THEN applyInMemory(rec.preFiles, rec.execText.value.changes).files
    ELSE rec.preFiles

\* C16: a request starts to load the workspace from the repository only in
\* a step in which the store holds no workspace for the project; a request
\* sent after an earlier invocation on the project was answered does not
\* load it again and enters the workflow with the files the earlier
\* invocation left, its edits included.
C16_HydrateOnlyWhenAbsent ==
    /\ [][\A r \in Reqs :
            ~HasEv(inv[r], "hydrate") /\ HasEv(inv'[r], "hydrate") =>
               ~workspaces[inv[r].projectId].present]_vars
    /\ [](HasEv(inv["r1"], "planCall") /\ inv["r2"].pc \notin {"idle", "lookup"}
            /\ inv["r2"].res.status # 404 =>
              /\ ~HasEv(inv["r2"], "hydrate")
              /\ HasEv(inv["r2"], "planCall")
              /\ inv["r2"].preFiles = FilesLeftBy(inv["r1"]))

C16_Witness ==
    /\ inv["r1"].pc = "done" /\ inv["r1"].res.success
    /\ inv["r1"].changes = <<Edit("create", pA, cHi)>>
    /\ ~Has(remote["p1"], pA)
    /\ inv["r2"].pc = "done" /\ inv["r2"].res.success
    /\ inv["r2"].preFiles = <<File(pA, cHi)>>
    /\ ~HasEv(inv["r2"], "hydrate")

----------------------------------------------------------------------------
(* Failures inside one workflow invocation *)

\* C11: when the execution response is not valid JSON, the invocation ends
\* failed with success=false, a non-empty error and raw equal to the text
\* of the execution response; no edit is applied to the workspace and no
\* commit call is made.
C11_ExecParseFailureFails ==
    \A r \in Reqs :
        inv[r].execText.kind = "garbage" =>
            /\ inv[r].pc = "done"
            /\ ~inv[r].res.success
            /\ inv[r].res.error # ""
            /\ inv[r].res.raw = inv[r].execText
            /\ ~HasEv(inv[r], "apply") /\ ~HasEv(inv[r], "commit")
            /\ inv[r].res.commits = <<>>
            /\ workspaces[inv[r].projectId].files = inv[r].preFiles

C11_Witness ==
    \E r \in Reqs :
        /\ inv[r].pc = "done"
        /\ inv[r].execText = Garbage(2)
        /\ inv[r].res.raw = Garbage(2)
        /\ HasEv(inv[r], "tool")
        /\ inv[r].preFiles # <<>>

\* C12: an understanding entry whose tool is not one of the known tools is
\* skipped: the iteration raises nothing, leaves the gathered context as it
\* was, and the loop goes on with the next entry.
C12_UnknownToolSkipped ==
    [][\A r \in Reqs :
          ( /\ inv[r].pc = "gathering"
            /\ inv[r].plan.hasUnderstanding
            /\ inv[r].idx \in 1..Len(inv[r].plan.understanding)
            /\ inv[r].plan.understanding[inv[r].idx].tool \notin KnownTools
            /\ inv'[r] # inv[r] )
          => /\ inv'[r].pc = "gathering"
             /\ inv'[r].context = inv[r].context
             /\ inv'[r].idx = inv[r].idx + 1
             /\ inv'[r].plan = inv[r].plan
             /\ inv'[r].res = NoRes]_vars

C12_Witness ==
    \E r \in Reqs :
        /\ inv[r].pc = "gathering"
        /\ inv[r].idx = 3
        /\ inv[r].plan.understanding[1].tool = "lint"
        /\ inv[r].plan.understanding[2].tool = "tree"
        /\ inv[r].context.keys = {"fileTree"}

UpstreamFailed(rec) == HasEv(rec, "planFail") \/ HasEv(rec, "execFail")

\* C13: when the planning call or the execution call is rejected upstream,
\* the request is answered with status 500 and a body that holds only the
\* error message, and the invocation has applied no edit to the workspace
\* and made no commit: the step that answers changes neither the workspace
\* store nor the repository.
C13_UpstreamFailureIs500 ==
    /\ [](\A r \in Reqs :
            UpstreamFailed(inv[r]) =>
               /\ inv[r].pc = "done"
               /\ inv[r].res.status = 500
               /\ inv[r].res.error # ""
               /\ inv[r].res = [NoRes EXCEPT !.status = 500,
                                            !.error = inv[r].res.error]
               /\ ~HasEv(inv[r], "apply") /\ ~HasEv(inv[r], "commit")
               /\ workspaces[inv[r].projectId].files = inv[r].preFiles)
    /\ [][\A r \in Reqs :
            UpstreamFailed(inv'[r]) /\ ~UpstreamFailed(inv[r]) =>
               remote' = remote /\ workspaces' = workspaces]_vars

C13_Witness ==
    \E r \in Reqs :
        /\ inv[r].pc = "done"
        /\ HasEv(inv[r], "execFail")
        /\ HasEv(inv[r], "hydrate") /\ HasEv(inv[r], "tool")
        /\ inv[r].res.status = 500
        /\ inv[r].preFiles # <<>>

\* C18: when the commit call of one edit is rejected, the commit calls of
\* all edits of the list are still made in list order, the workspace holds
\* the result of every edit of the list, the repository holds what the
\* accepted calls wrote, and the invocation is answered with success.
C18_FailedMirrorKeepsGoing ==
    \A r \in Reqs :
        LET rec == inv[r]
            p == rec.projectId
            ce == CommitEvents(rec)
        IN ( /\ rec.pc \in {"store1", "store2", "done"}
             /\ \E i \in 1..Len(ce) : ~ce[i].ok )
           => /\ Len(ce) = Len(rec.changes)
              /\ \A i \in 1..Len(ce) : ce[i].path = rec.changes[i].file
              /\ workspaces[p].files =
                    applyInMemory(rec.preFiles, rec.changes).files
              /\ \A i \in 1..Len(ce) :
                    ( /\ ce[i].ok
                      /\ ~\E j \in (i + 1)..Len(ce) :
                             ce[j].ok /\ ce[j].path = ce[i].path )
                    => /\ Has(remote[p], ce[i].path)
                       /\ Get(remote[p], ce[i].path) =
                             CommitContent(rec.changes[i])
              /\ rec.pc = "done" =>
                    /\ rec.res.success /\ rec.res.status = 200
                    /\ rec.res.changes = rec.changes

C18_Witness ==
    \E r \in Reqs :
        /\ inv[r].pc = "done" /\ inv[r].res.success
        /\ inv[r].changes = <<Edit("create", pA, cHi),
                              EditNoContent("delete", pB)>>
        /\ CommitEvents(inv[r]) = <<Ev("commit", pA, FALSE),
                                    Ev("commit", pB, TRUE)>>
        /\ ~Has(remote[inv[r].projectId], pA)
        /\ Has(workspaces[inv[r].projectId].files, pA)

\* the field of the context that the switch assigns for a tool
ContextField(tool) ==
    CASE tool = "tree" -> "fileTree"
      [] tool = "cat" -> "files"
      [] tool = "search" -> "searchResults"
      [] tool = "locate" -> "relevantFiles"

\* C20: when the understanding loop is over, the context holds the result
\* of every entry that names a known tool, so the result of an earlier
\* entry is still there after a later entry has run.
C20_ContextHoldsEveryResult ==
    \A r \in Reqs :
        LET rec == inv[r]
            u == rec.plan.understanding
            ws == workspaces[rec.projectId]
        IN rec.pc = "executing" /\ rec.plan.hasUnderstanding =>
              \A i \in 1..Len(u) :
                  u[i].tool \in KnownTools =>
                     /\ ContextField(u[i].tool) \in rec.context.keys
                     /\ rec.context[ContextField(u[i].tool)] =
                        dispatch(EmptyContext, u[i], ws)
                           [ContextField(u[i].tool)]

\* the calls of one kind that an invocation has made to the LLM Gateway
Calls(rec, name) == SelectSeq(rec.trace, LAMBDA e : e.ev = name)

\* C21: one workflow invocation makes at most one planning call and at
\* most one execution call to the LLM Gateway, whatever the calls answer
\* (a text that is not JSON, a rejection), and an invocation that has
\* applied its edits and reports success has made exactly one of each.
C21_AtMostOneCallPerPhase ==
    \A r \in Reqs :
        LET rec == inv[r]
        IN /\ Len(Calls(rec, "planCall")) <= 1
           /\ Len(Calls(rec, "execCall")) <= 1
           /\ HasEv(rec, "execCall") => HasEv(rec, "planCall")
           /\ ( \/ HasEv(rec, "apply")
                \/ rec.pc = "done" /\ rec.res.success )
              => Len(Calls(rec, "planCall")) + Len(Calls(rec, "execCall")) = 2

\* a plan that is not JSON, then an execution response that is not JSON:
\* two calls, no third
C21_Witness ==
    \E r \in Reqs :
        /\ inv[r].pc = "done"
        /\ inv[r].plan.error = "Failed to parse plan"
        /\ inv[r].res.error = "Failed to parse agent response"
        /\ Len(Calls(inv[r], "planCall")) = 1
        /\ Len(Calls(inv[r], "execCall")) = 1

\* the execution response is JSON whose changes list is missing or empty
NoEdits(text) ==
    /\ text.kind = "json"
    /\ ~text.value.hasChanges \/ text.value.changes = <<>>

\* C29: when the execution response parses as JSON but its changes list is
\* missing or empty, the workflow returns success=false with the error
\* "No changes generated", no commit call is made and the workspace holds
\* the files it held when the workflow started.
C29_NoChangesFails ==
    \A r \in Reqs :
        LET rec == inv[r]
        IN NoEdits(rec.execText) =>
              /\ rec.pc = "done"
              /\ rec.res.status = 200 /\ ~rec.res.success
              /\ rec.res.error = "No changes generated"
              /\ rec.res.commits = <<>>
              /\ ~HasEv(rec, "apply") /\ ~HasEv(rec, "commit")
              /\ workspaces[rec.projectId].files = rec.preFiles

C29_Witness ==
    \E r \in Reqs :
        /\ inv[r].execText = JsonText(JsonObj(FALSE, <<>>, TRUE, <<>>))
        /\ inv[r].pc = "done"
        /\ inv[r].res.error = "No changes generated"
        /\ inv[r].preFiles # <<>>

\* the second loop of applyPatch is over and every commit call succeeded
AllMirrored(rec) ==
    /\ rec.pc \in {"store1", "store2", "done"}
    /\ HasEv(rec, "commit")
    /\ \A i \in 1..Len(rec.trace) :
          rec.trace[i].ev = "commit" => rec.trace[i].ok

\* C25: after an invocation that runs alone and in which every commit call
\* succeeds, every path the edit list touches has the same status in the
\* repository as in the workspace: the same content when the workspace
\* holds the path, and no file in the repository when it does not.
C25_RemoteMatchesWorkspace ==
    \A r \in Reqs :
        LET rec == inv[r]
            p == rec.projectId
        IN AllMirrored(rec) =>
              \A i \in 1..Len(rec.changes) :
                  LET path == rec.changes[i].file
                  IN IF Has(workspaces[p].files, path)
                     THEN /\ Has(remote[p], path)
                          /\ Get(remote[p], path) =
                                Get(workspaces[p].files, path)
                     ELSE ~Has(remote[p], path)

\* C26: whenever executeAgentWorkflow returns a result with success=false,
\* the workspace holds exactly the files it held when the invocation
\* started and no commit call was made, whatever the parsed execution
\* response looks like.
C26_FailureLeavesWorkspace ==
    \A r \in Reqs :
        LET rec == inv[r]
        IN rec.pc = "done" /\ rec.res.status = 200 /\ ~rec.res.success =>
              /\ workspaces[rec.projectId].files = rec.preFiles
              /\ ~HasEv(rec, "commit")

----------------------------------------------------------------------------
(* The tree tool *)

\* the non-empty prefixes of a segment list
Prefixes(parts) == {SubSeq(parts, 1, k) : k \in 1..Len(parts)}

\* C22: the tree getFileTree returns holds, for every file path of the
\* workspace, the chain of its segments (the path split on '/') from the
\* root, every prefix of the chain being a key chain too, and holds no key
\* chain that is not a prefix of the segment list of some file path.
C22_TreeIsPrefixesOfPaths ==
    \A p \in Projects :
        toolOut.tool = "tree" /\ workspaces[p].present =>
            LET files == workspaces[p].files
                segs(i) == split(files[i].path, "/")
            IN /\ \A i \in 1..Len(files) :
                     Prefixes(segs(i)) \subseteq toolOut.tree
               /\ \A chain \in toolOut.tree :
                     \E i \in 1..Len(files) : chain \in Prefixes(segs(i))

C22_Witness ==
    /\ toolOut.tool = "tree"
    /\ Len(workspaces["p1"].files) = 2
    /\ <<<<"s","r","c">>, <<"c","o","m","p","o","n","e","n","t","s">>,
          <<"H","e","r","o",".","j","s">>>> \in toolOut.tree
    /\ <<<<"s","r","c">>, <<"i","n","d","e","x",".","c","s","s">>>>
          \in toolOut.tree
    /\ Cardinality(toolOut.tree) = 4

----------------------------------------------------------------------------
(* POST /v1/projects/:projectId/generate of revision 2.0.0 *)

\* the five paths readProjectFiles asks the repository for
filesToRead ==
    << <<"s","r","c","/","A","p","p",".","j","s">>,
       <<"p","a","c","k","a","g","e",".","j","s","o","n">>,
       <<"b","a","c","k","e","n","d","/","s","e","r","v","e","r",".","j","s">>,
       <<"b","a","c","k","e","n","d","/","p","r","i","s","m","a","/","s","c","h","e","m","a",".","p","r","i","s","m","a">>,
       <<"b","a","c","k","e","n","d","/","r","o","u","t","e","s","/","a","u","t","h",".","j","s">> >>

\* res.status(status).json({error}) of the generate handler
generateRespond(status, error) ==
    [genReq EXCEPT !.pc = "done",
                   !.res = [status |-> status, error |-> error]]

\* !projects.get(projectId)
projectMissing(projectId) ==
    projectId \notin Projects \/ ~projects[projectId].present

\* the request arrives; projects.get is a synchronous lookup in the Map
GenerateRequest(projectId) ==
    /\ genReq.pc = "idle"
    /\ IF projectMissing(projectId)
       THEN /\ genReq' = [generateRespond(404, "Project not found")
                             EXCEPT !.projectId = projectId]
            /\ issued' = {}
       ELSE /\ genReq' = [genReq EXCEPT !.pc = "read", !.k = 1,
                                        !.projectId = projectId]
            /\ issued' = {"github"}
    /\ UNCHANGED <<workspaces, remote, toolIn, toolOut, inv, llmUp,
                   healthRes, projects, createReq, chatDb, chatReq>>

\* readProjectFiles: getContent of path k answered (a rejection is caught
\* and the path skipped). After the last path the prompt is built and
\* callClaudeAPI, which revision 2.0.0 does not define, is called: the
\* ReferenceError reaches the catch block of the handler.
GenerateReadReturn ==
    /\ genReq.pc = "read"
    /\ IF genReq.k < Len(filesToRead)
       THEN /\ genReq' = [genReq EXCEPT !.k = @ + 1]
            /\ issued' = {"github"}
       ELSE /\ genReq' = generateRespond(500, "callClaudeAPI is not defined")
            /\ issued' = {}
    /\ UNCHANGED <<workspaces, remote, toolIn, toolOut, inv, llmUp,
                   healthRes, projects, createReq, chatDb, chatReq>>

----------------------------------------------------------------------------
(* Requests that name a project, one server revision running *)

AgentIdle == \A r \in Reqs : inv[r].pc = "idle"

ChatIdle == \A c \in ChatReqs : chatReq[c].pc = "idle"

GenerateIdle == genReq.pc = "idle"

\* what the Map of revision 2.0.0 holds when the request arrives: nothing,
\* or the project an earlier create request stored
InitProjects ==
    { NoWorkspace, createWorkspace(generateProjectStructure200("simple")) }

InitNotFound ==
    /\ workspaces = [p \in Projects |-> NoWorkspace]
    /\ remote \in [Projects -> InitRemotes]
    /\ toolIn = NoTool
    /\ toolOut = NoOut
    /\ inv = [r \in Reqs |-> IdleReq]
    /\ llmUp = TRUE
    /\ issued = {}
    /\ healthRes = NoHealth
    /\ projects \in [Projects -> InitProjects]
    /\ createReq = IdleCreate
    /\ chatDb = EmptyChatDb
    /\ chatReq = [c \in ChatReqs |-> IdleChat]
    /\ genReq = IdleGen

\* revision 3.0.0 serves two /agent requests, or revision 2.1.0 two /chat
\* requests, or revision 2.0.0 one /generate request
NextNotFound ==
    \/ ChatIdle /\ GenerateIdle /\ NextSeq
    \/ AgentIdle /\ GenerateIdle /\ NextChat
    \/ AgentIdle /\ ChatIdle /\ \E id \in ProjectIds : GenerateRequest(id)
    \/ GenerateReadReturn

SpecNotFound == InitNotFound /\ [][NextNotFound]_vars

\* the request has just been answered 404
Answers404(before, after) ==
    before.pc # "done" /\ after.pc = "done" /\ after.res.status = 404

\* C30: a request whose project identifier the project store cannot
\* resolve is answered 404 "Project not found"; when it is answered the
\* request has made no LLM call, no hydration, no commit call and no write
\* of a message or of pending code, and the step that answers it changes
\* neither the workspaces, the repository, the projects Map nor the chat
\* tables and issues no call.
C30_UnknownProjectIs404 ==
    /\ [](\A r \in Reqs :
            inv[r].pc = "done" /\ inv[r].projectId \notin Projects =>
               /\ inv[r].res.status = 404
               /\ inv[r].res.error = "Project not found"
               /\ inv[r].trace = <<>>
               /\ inv[r].execText = NoText)
    /\ [](\A c \in ChatReqs :
            chatReq[c].pc = "done" /\ chatReq[c].projectId \notin Projects =>
               /\ chatReq[c].res.status = 404
               /\ chatReq[c].res.error = "Project not found"
               /\ chatReq[c].calls = <<>>
               /\ chatReq[c].session = ""
               /\ \A i \in 1..Len(chatDb.messages) :
                     chatDb.messages[i].req # c)
    /\ [](genReq.pc = "done" /\ ( \/ genReq.projectId \notin Projects
                                   \/ ~projects[genReq.projectId].present ) =>
               /\ genReq.res.status = 404
               /\ genReq.res.error = "Project not found"
               /\ genReq.k = 0)
    /\ [][ ( \/ \E r \in Reqs : Answers404(inv[r], inv'[r])
             \/ \E c \in ChatReqs : Answers404(chatReq[c], chatReq'[c])
             \/ Answers404(genReq, genReq') )
           => /\ UNCHANGED <<workspaces, remote, projects, chatDb>>
              /\ issued' = {} ]_vars

\* a second /agent request names an unknown project after a first one
\* left edits in the workspace
C30_Witness ==
    /\ inv["r1"].pc = "done" /\ inv["r1"].res.success
    /\ inv["r2"].pc = "done" /\ inv["r2"].res.status = 404
    /\ inv["r2"].projectId = "nope"
    /\ workspaces["p1"].files = <<File(pA, cHi)>>

----------------------------------------------------------------------------
(* Two /chat requests in flight at the same time *)

ConcMessages == {mAdd, mCommit}

ConcSessionArgs == {"", "s1"}

ConcAiTexts == {aOne, aTwo}

NextChatConc ==
    \/ \E c \in ChatReqs, message \in ConcMessages,
          sessionArg \in ConcSessionArgs :
          ChatRequest(c, "p1", message, sessionArg)
    \/ \E c \in ChatReqs, dbOk \in BOOLEAN : ChatLookupReturn(c, dbOk)
    \/ \E c \in ChatReqs : ChatSessionById(c)
    \/ \E c \in ChatReqs : ChatSessionMain(c)
    \/ \E c \in ChatReqs : ChatSessionInsert(c)
    \/ \E c \in ChatReqs : ChatHistoryReturn(c)
    \/ \E c \in ChatReqs : ChatUserStored(c)
    \/ \E c \in ChatReqs : ChatPendingReturn(c)
    \/ \E c \in ChatReqs, ok \in BOOLEAN : ChatCommitReturn(c, ok)
    \/ \E c \in ChatReqs : ChatMarkReturn(c)
    \/ \E c \in ChatReqs : ChatLLMFail(c)
    \/ \E c \in ChatReqs, text \in ConcAiTexts : ChatLLMReturn(c, text)
    \/ \E c \in ChatReqs : ChatDeleteReturn(c)
    \/ \E c \in ChatReqs : ChatInsertReturn(c)
    \/ \E c \in ChatReqs : ChatAssistantStored(c)

SpecChatConc == InitChat /\ [][NextChatConc]_vars

\* the rows of a session that are still pending
PendingOf(session) ==
    SelectSeq(chatDb.pending,
              LAMBDA row : row.session_id = session /\ row.status = "pending")

\* C27: a pending_code row has status 'committed' only if a commit call
\* carrying the row's path and content succeeded.
C27_CommittedOnlyAfterCommit ==
    \A i \in 1..Len(chatDb.pending) :
        LET row == chatDb.pending[i]
        IN row.status = "committed" =>
              \E c \in ChatReqs : \E k \in 1..Len(chatReq[c].calls) :
                  LET call == chatReq[c].calls[k]
                  IN /\ call.call = "commit" /\ call.ok
                     /\ call.path = row.file_path
                     /\ call.content = row.content

\* C28: when the inserts of a modify turn are done, the pending rows of the
\* session are exactly the files parsed from the turn's AI response, in
\* place of all earlier pending rows; and a session never holds two pending
\* rows with the same file path.
C28_PendingIsLastModify ==
    /\ \A c \in ChatReqs :
          LET q == chatReq[c]
          IN q.pc = "storeAssistant" /\ q.action = "code_modified" =>
                PendingOf(q.session) =
                   [k \in 1..Len(q.codeFiles) |->
                       PendingRow(q.session, q.codeFiles[k])]
    /\ \A i, j \in 1..Len(chatDb.pending) :
          LET a == chatDb.pending[i]
              b == chatDb.pending[j]
          IN ( /\ i # j
               /\ a.status = "pending" /\ b.status = "pending"
               /\ a.session_id = b.session_id )
             => a.file_path # b.file_path

----------------------------------------------------------------------------
(* Two /agent requests in flight at the same time *)

\* the responses the LLM gives the second request: a plan without steps,
\* then a text that is not JSON or one edit
ConcPlanTexts == { JsonText(EmptyObj) }

ConcExecTexts ==
    { Garbage(2),
      JsonText(JsonObj(FALSE, <<>>, TRUE, <<Edit("create", pB, cStyle)>>)) }

InitConc == InitSeq /\ remote = [p \in Projects |-> <<File(pA, cHi)>>]

NextConc ==
    \/ \E r \in Reqs, id \in ProjectIds : AgentRequest(r, id)
    \/ \E r \in Reqs, dbOk \in BOOLEAN : LookupReturn(r, dbOk)
    \/ \E r \in Reqs, ok \in BOOLEAN : HydrateList(r, ok)
    \/ \E r \in Reqs, ok \in BOOLEAN : HydrateFile(r, ok)
    \/ \E r \in Reqs : PlanFail(r)
    \/ \E text \in SeqPlanTexts : PlanReturn("r1", text)
    \/ \E text \in ConcPlanTexts : PlanReturn("r2", text)
    \/ \E r \in Reqs : GatherStep(r)
    \/ \E r \in Reqs : ExecCall(r)
    \/ \E r \in Reqs : ExecFail(r)
    \/ \E text \in SeqExecTexts : ExecReturn("r1", text)
    \/ \E text \in ConcExecTexts : ExecReturn("r2", text)
    \/ \E r \in Reqs, ok \in BOOLEAN : CommitReturn(r, ok)
    \/ \E r \in Reqs : Store1Return(r)
    \/ \E r \in Reqs : Store2Return(r)

SpecConc == InitConc /\ [][NextConc]_vars

\* the path is held with the same content, or held by neither
SameEntry(files1, files2, path) ==
    /\ Has(files1, path) <=> Has(files2, path)
    /\ Has(files1, path) => Get(files1, path) = Get(files2, path)

Named(changes) == {changes[i].file : i \in 1..Len(changes)}

\* C23: the step of an invocation that issues the first commit call of
\* applyPatch takes the workspace, as the other invocations left it, to the
\* workspace with the whole edit list applied (for every path of the list
\* the last edit decides, every other path is as it was); no commit call
\* was answered before it and no other invocation moves in it.
C23_AppliedWholeBeforeFirstCommit ==
    [][ \A r \in Reqs :
          inv[r].pc = "executing" /\ inv'[r].pc = "committing" =>
             LET p == inv[r].projectId
                 changes == inv'[r].changes
                 W0 == workspaces[p].files
                 W1 == workspaces'[p].files
             IN /\ issued' = {"github"}
                /\ ~HasEv(inv'[r], "commit")
                /\ \A other \in Reqs \ {r} : inv'[other] = inv[other]
                /\ \A path \in Named(changes) :
                      LET last == LastEditFor(changes, path)
                      IN IF IsWrite(last)
                         THEN /\ Has(W1, path)
                              /\ Get(W1, path) = ContentOf(last)
                         ELSE ~Has(W1, path)
                /\ \A path \in (Keys(W0) \cup Keys(W1)) \ Named(changes) :
                      SameEntry(W0, W1, path) ]_vars

\* one invocation has applied a list of two edits and waits for its first
\* commit call while the other waits for its execution call
C23_Witness ==
    /\ inv["r1"].pc = "committing" /\ inv["r1"].k = 1
    /\ Len(inv["r1"].changes) = 2
    /\ ~HasEv(inv["r1"], "commit")
    /\ inv["r2"].pc = "executing"
    /\ inv["r2"].projectId = inv["r1"].projectId

\* an invocation on the project has applied an edit list naming the path
Edited(p, path) ==
    \E r \in Reqs :
        /\ inv[r].projectId = p
        /\ HasEv(inv[r], "apply")
        /\ path \in Named(inv[r].execText.value.changes)

\* C24: whatever the interleaving of the requests on a project, the entry
\* that an applied edit left for a path in the stored workspace changes
\* only in a step in which an invocation applies an edit list naming the
\* path; in particular the hydration of a concurrent request does not
\* replace a workspace that carries applied edits.
C24_EditsStayVisible ==
    [][ \A p \in Projects :
          \A path \in Keys(workspaces[p].files)
                          \cup Keys(workspaces'[p].files) :
             ( /\ Edited(p, path)
               /\ ~SameEntry(workspaces[p].files, workspaces'[p].files,
                             path) )
             => \E r \in Reqs :
                   /\ inv[r].projectId = p
                   /\ inv[r].pc = "executing"
                   /\ HasEv(inv'[r], "apply")
                   /\ path \in Named(inv'[r].execText.value.changes)
      ]_vars

====
